---- MODULE Spec2Model ----
(***************************************************************************)
(* Smart Jemuran: the telemetry state manager (mqtt_handler.py, payload    *)
(* parser and lock-guarded latest_data), the link callbacks and the        *)
(* confirmed-command protocol publish_control.                             *)
(*                                                                         *)
(* Text is modelled as sequences of one-character strings, so that split,  *)
(* strip, lower, float(), int() and strptime() are computed and not        *)
(* assumed.  Floats are exact decimal fractions num/den (den a power of    *)
(* ten, in lowest decimal terms); binary rounding of doubles is not        *)
(* modelled.                                                               *)
(***************************************************************************)
EXTENDS Integers, Sequences, FiniteSets, TLC

\* ------------------------------------------------------------------------
\* Characters and strings
\* ------------------------------------------------------------------------

Digits == <<"0", "1", "2", "3", "4", "5", "6", "7", "8", "9">>

UpperLetters == <<"A", "B", "C", "D", "E", "F", "G", "H", "I", "J", "K", "L", "M",
                  "N", "O", "P", "Q", "R", "S", "T", "U", "V", "W", "X", "Y", "Z">>

LowerLetters == <<"a", "b", "c", "d", "e", "f", "g", "h", "i", "j", "k", "l", "m",
                  "n", "o", "p", "q", "r", "s", "t", "u", "v", "w", "x", "y", "z">>

DigitSet == {Digits[i] : i \in 1..Len(Digits)}

\* the value of each digit
DigitValues == [c \in DigitSet |-> (CHOOSE i \in 1..Len(Digits) : Digits[i] = c) - 1]

\* the lower-case letter of each upper-case letter
LowerOf ==
    [c \in {UpperLetters[i] : i \in 1..Len(UpperLetters)} |->
        LowerLetters[CHOOSE i \in 1..Len(UpperLetters) : UpperLetters[i] = c]]

IsDigit(c) == c \in DigitSet

DigitVal(c) == DigitValues[c]

\* str.isspace() on the characters a payload of the model can hold
IsSpace(c) == c = " "

\* str.lower(), one character
LowerChar(c) == IF c \in DOMAIN LowerOf THEN LowerOf[c] ELSE c

\* str.lower()
Lower(s) == [i \in 1..Len(s) |-> LowerChar(s[i])]

\* str.strip()
Strip(s) ==
    LET idx == {i \in 1..Len(s) : ~IsSpace(s[i])}
    IN  IF idx = {} THEN <<>>
        ELSE LET lo == CHOOSE i \in idx : \A j \in idx : i <= j
                 hi == CHOOSE i \in idx : \A j \in idx : j <= i
             IN  SubSeq(s, lo, hi)

\* position of the first occurrence of character c in s, 0 when there is none
IndexOf(s, c) ==
    LET idx == {i \in 1..Len(s) : s[i] = c}
    IN  IF idx = {} THEN 0 ELSE CHOOSE i \in idx : \A j \in idx : i <= j

\* `c in s`
Contains(s, c) == IndexOf(s, c) # 0

\* str.split(sep) for a one-character separator: always at least one piece
RECURSIVE Split(_, _)
Split(s, sep) ==
    LET k == IndexOf(s, sep)
    IN  IF k = 0 THEN <<s>>
        ELSE <<SubSeq(s, 1, k - 1)>> \o Split(SubSeq(s, k + 1, Len(s)), sep)

\* str.split(sep, 1) on a string that holds sep: the text before the first sep
SplitKey(s, sep) == SubSeq(s, 1, IndexOf(s, sep) - 1)

\* str.split(sep, 1) on a string that holds sep: the text after the first sep
SplitValue(s, sep) == SubSeq(s, IndexOf(s, sep) + 1, Len(s))

\* ------------------------------------------------------------------------
\* float() and int()
\* ------------------------------------------------------------------------

RECURSIVE Pow10(_)
Pow10(n) == IF n <= 0 THEN 1 ELSE 10 * Pow10(n - 1)

\* a float as a decimal fraction in lowest decimal terms
RECURSIVE Normalize(_, _)
Normalize(n, d) ==
    IF d > 1 /\ n % 10 = 0 THEN Normalize(n \div 10, d \div 10)
    ELSE [kind |-> "num", num |-> n, den |-> d]

Float(n) == [kind |-> "num", num |-> n, den |-> 1]

FloatNaN == [kind |-> "nan", num |-> 0, den |-> 1]

FloatInf(sign) == [kind |-> "inf", num |-> sign, den |-> 1]

\* digitpart ::= digit (["_"] digit)*
IsDigitPart(s) ==
    /\ Len(s) > 0
    /\ IsDigit(s[1])
    /\ IsDigit(s[Len(s)])
    /\ \A i \in 1..Len(s) : IsDigit(s[i]) \/ s[i] = "_"
    /\ \A i \in 1..(Len(s) - 1) : ~(s[i] = "_" /\ s[i + 1] = "_")

\* the digits of a digitpart, underscores left out
OnlyDigits(s) == SelectSeq(s, IsDigit)

RECURSIVE DigitsValue(_)
DigitsValue(s) ==
    IF Len(s) = 0 THEN 0
    ELSE 10 * DigitsValue(SubSeq(s, 1, Len(s) - 1)) + DigitVal(s[Len(s)])

HasSign(s) == Len(s) > 0 /\ s[1] \in {"+", "-"}

SignOf(s) == IF Len(s) > 0 /\ s[1] = "-" THEN -1 ELSE 1

Unsigned(s) == IF HasSign(s) THEN SubSeq(s, 2, Len(s)) ELSE s

\* int(value): [sign] digitpart, surrounding whitespace allowed
CanInt(value) == IsDigitPart(Unsigned(Strip(value)))

IntOf(value) ==
    LET s == Strip(value)
    IN  SignOf(s) * DigitsValue(OnlyDigits(Unsigned(s)))

\* the exponent of a float literal: 0 when there is none
ExpIndex(body) == IndexOf(Lower(body), "e")

Mantissa(body) == IF ExpIndex(body) = 0 THEN body ELSE SubSeq(body, 1, ExpIndex(body) - 1)

ExpPart(body) == SubSeq(body, ExpIndex(body) + 1, Len(body))

\* number ::= [digitpart] "." digitpart | digitpart ["."]
IsNumber(m) ==
    LET k == IndexOf(m, ".")
        ip == SubSeq(m, 1, k - 1)
        fp == SubSeq(m, k + 1, Len(m))
    IN  IF k = 0 THEN IsDigitPart(m)
        ELSE \/ (ip = <<>> \/ IsDigitPart(ip)) /\ IsDigitPart(fp)
             \/ IsDigitPart(ip) /\ fp = <<>>

IsSpecialFloat(body) ==
    Lower(body) \in {<<"i", "n", "f">>, <<"n", "a", "n">>,
                     <<"i", "n", "f", "i", "n", "i", "t", "y">>}

\* float(value) does not raise ValueError
CanFloat(value) ==
    LET body == Unsigned(Strip(value))
    IN  \/ IsSpecialFloat(body)
        \/ /\ IsNumber(Mantissa(body))
           /\ ExpIndex(body) # 0 => IsDigitPart(Unsigned(ExpPart(body)))

\* float(value), for a value float() accepts
FloatOf(value) ==
    LET s == Strip(value)
        body == Unsigned(s)
        m == Mantissa(body)
        k == IndexOf(m, ".")
        ip == IF k = 0 THEN OnlyDigits(m) ELSE OnlyDigits(SubSeq(m, 1, k - 1))
        fp == IF k = 0 THEN <<>> ELSE OnlyDigits(SubSeq(m, k + 1, Len(m)))
        e == IF ExpIndex(body) = 0 THEN 0
             ELSE SignOf(ExpPart(body)) * DigitsValue(OnlyDigits(Unsigned(ExpPart(body))))
        mant == SignOf(s) * (DigitsValue(ip) * Pow10(Len(fp)) + DigitsValue(fp))
    IN  IF Lower(body) = <<"n", "a", "n">> THEN FloatNaN
        ELSE IF IsSpecialFloat(body) THEN FloatInf(SignOf(s))
        ELSE IF e >= 0 THEN Normalize(mant * Pow10(e), Pow10(Len(fp)))
        ELSE Normalize(mant, Pow10(Len(fp) - e))

\* ------------------------------------------------------------------------
\* datetime and strptime()
\* ------------------------------------------------------------------------

DateTime(y, mo, d, h, mi, sec) ==
    [year |-> y, month |-> mo, day |-> d, hour |-> h, minute |-> mi, second |-> sec]

IsLeap(y) == (y % 4 = 0 /\ y % 100 # 0) \/ y % 400 = 0

DaysInMonth(y, mo) ==
    IF mo = 2 THEN (IF IsLeap(y) THEN 29 ELSE 28)
    ELSE IF mo \in {4, 6, 9, 11} THEN 30 ELSE 31

\* the datetime constructor accepts the fields strptime() found
ValidDateTime(f) ==
    /\ f.year >= 1
    /\ f.month \in 1..12
    /\ f.day \in 1..DaysInMonth(f.year, f.month)
    /\ f.hour \in 0..23
    /\ f.minute \in 0..59
    /\ f.second \in 0..59

\* datetime comparison: a is earlier than b
Earlier(a, b) ==
    LET day(d) == (d.year * 12 + d.month) * 31 + d.day
        time(d) == (d.hour * 60 + d.minute) * 60 + d.second
    IN  day(a) < day(b) \/ (day(a) = day(b) /\ time(a) < time(b))

Dir(c) == [t |-> "dir", c |-> c]

Lit(c) == [t |-> "lit", c |-> c]

Ws == [t |-> "ws", c |-> " "]

\* formats_to_try, in the order they are tried
RtcFormats ==
    << <<Dir("Y"), Lit("-"), Dir("m"), Lit("-"), Dir("d"), Ws,
         Dir("H"), Lit(":"), Dir("M"), Lit(":"), Dir("S")>>,
       <<Dir("d"), Lit("/"), Dir("m"), Lit("/"), Dir("Y"), Ws,
         Dir("H"), Lit(":"), Dir("M"), Lit(":"), Dir("S")>>,
       <<Dir("H"), Lit(":"), Dir("M"), Lit(":"), Dir("S"), Ws,
         Dir("d"), Lit("-"), Dir("m"), Lit("-"), Dir("Y")>>,
       <<Dir("Y"), Lit("-"), Dir("m"), Lit("-"), Dir("d"), Lit("T"),
         Dir("H"), Lit(":"), Dir("M"), Lit(":"), Dir("S")>> >>

\* the number of leading digits of s
RECURSIVE LeadDigits(_)
LeadDigits(s) == IF Len(s) > 0 /\ IsDigit(s[1]) THEN 1 + LeadDigits(Tail(s)) ELSE 0

\* the number of leading whitespace characters of s
RECURSIVE LeadSpaces(_)
LeadSpaces(s) == IF Len(s) > 0 /\ IsSpace(s[1]) THEN 1 + LeadSpaces(Tail(s)) ELSE 0

\* the values the regular expression of a directive accepts, for a run of n digits
DirAccepts(c, n, v) ==
    CASE c = "Y" -> n = 4
      [] c = "m" -> n \in {1, 2} /\ v \in 1..12
      [] c = "d" -> n \in {1, 2} /\ v \in 1..31
      [] c = "H" -> n \in {1, 2} /\ v \in 0..23
      [] c = "M" -> n \in {1, 2} /\ v \in 0..59
      [] c = "S" -> n \in {1, 2} /\ v \in 0..61

DirField(c) ==
    CASE c = "Y" -> "year" [] c = "m" -> "month" [] c = "d" -> "day"
      [] c = "H" -> "hour" [] c = "M" -> "minute" [] c = "S" -> "second"

NoMatch == [ok |-> FALSE, dt |-> DateTime(0, 0, 0, 0, 0, 0)]

\* the match of string s against the rest fmt of a format, acc the fields found
\* so far.  Every directive of RtcFormats is followed by a literal or ends the
\* format, so a directive takes the whole digit run or the match fails.
RECURSIVE MatchFormat(_, _, _)
MatchFormat(s, fmt, acc) ==
    IF Len(fmt) = 0 THEN
        IF Len(s) = 0 /\ ValidDateTime(acc) THEN [ok |-> TRUE, dt |-> acc] ELSE NoMatch
    ELSE
        LET it == Head(fmt)
            n == LeadDigits(s)
            v == DigitsValue(SubSeq(s, 1, n))
            sp == LeadSpaces(s)
        IN  CASE it.t = "lit" ->
                   IF Len(s) > 0 /\ LowerChar(s[1]) = LowerChar(it.c)
                   THEN MatchFormat(Tail(s), Tail(fmt), acc)
                   ELSE NoMatch
              [] it.t = "ws" ->
                   IF sp >= 1
                   THEN MatchFormat(SubSeq(s, sp + 1, Len(s)), Tail(fmt), acc)
                   ELSE NoMatch
              [] it.t = "dir" ->
                   IF n >= 1 /\ DirAccepts(it.c, n, v)
                   THEN MatchFormat(SubSeq(s, n + 1, Len(s)), Tail(fmt),
                                    [acc EXCEPT ![DirField(it.c)] = v])
                   ELSE IF /\ it.c = "d" /\ Len(s) >= 2 /\ s[1] = " "
                           /\ IsDigit(s[2]) /\ s[2] # "0"
                           /\ ~(Len(s) >= 3 /\ IsDigit(s[3]))
                   THEN MatchFormat(SubSeq(s, 3, Len(s)), Tail(fmt),
                                    [acc EXCEPT !.day = DigitVal(s[2])])
                   ELSE NoMatch

\* datetime.strptime(time_str, fmt): ok = FALSE stands for ValueError
Strptime(time_str, fmt) == MatchFormat(time_str, fmt, DateTime(0, 0, 0, 0, 0, 0))

\* the first format, from index i on, that time_str matches; 0 when none does
RECURSIVE FirstFormat(_, _)
FirstFormat(time_str, i) ==
    IF i > Len(RtcFormats) THEN 0
    ELSE IF Strptime(time_str, RtcFormats[i]).ok THEN i
    ELSE FirstFormat(time_str, i + 1)

\* a parse_rtc_time that tries the first format only
ParseRtcTimeFirstOnly(time_str, now) ==
    LET r == Strptime(time_str, RtcFormats[1])
    IN  IF r.ok THEN r.dt ELSE now

\* parse_rtc_time(time_str), now the value of datetime.now()
parse_rtc_time(time_str, now) ==
    LET i == FirstFormat(time_str, 1)
    IN  IF i = 0 THEN now ELSE Strptime(time_str, RtcFormats[i]).dt

\* ------------------------------------------------------------------------
\* process_sensor_data: the payload parser
\* ------------------------------------------------------------------------

K_suhu == <<"s", "u", "h", "u">>

K_kelembapan == <<"k", "e", "l", "e", "m", "b", "a", "p", "a", "n">>

K_heat_index == <<"h", "e", "a", "t", "_", "i", "n", "d", "e", "x">>

K_dew_point == <<"d", "e", "w", "_", "p", "o", "i", "n", "t">>

K_cahaya_analog == <<"c", "a", "h", "a", "y", "a", "_", "a", "n", "a", "l", "o", "g">>

K_hujan == <<"h", "u", "j", "a", "n">>

K_waktu == <<"w", "a", "k", "t", "u">>

\* the hujan values that mean no rain
NoRainWords ==
    { <<"t", "i", "d", "a", "k", " ", "h", "u", "j", "a", "n">>,
      <<"f", "a", "l", "s", "e">>,
      <<"0">> }

\* Optional[...]: None is the empty sequence, a value x is <<x>>
None == <<>>

Some(x) == <<x>>

\* d[k] = v on a dict
DictPut(d, k, v) == [x \in (DOMAIN d) \cup {k} |-> IF x = k THEN v ELSE d[x]]

\* dict.get(k, default)
DictGet(d, k, default) == IF k \in DOMAIN d THEN d[k] ELSE default

EmptyDict == [x \in {} |-> 0]

\* the key of a pair that holds ':'
PairKey(pair) == Lower(Strip(SplitKey(pair, ":")))

\* the value of a pair that holds ':'
PairValue(pair) == Strip(SplitValue(pair, ":"))

\* a parser in which one bad numeric field discards the fields parsed so far
ParsePairAborting(st, pair) ==
    IF ~Contains(pair, ":") THEN st
    ELSE
        LET key == PairKey(pair)
            value == PairValue(pair)
        IN  IF key = K_waktu THEN [st EXCEPT !.rtc_time_str = Some(value)]
            ELSE IF key \in {K_suhu, K_kelembapan, K_heat_index, K_dew_point} THEN
                IF CanFloat(value)
                THEN [st EXCEPT !.data_dict = DictPut(@, key, FloatOf(value))]
                ELSE [st EXCEPT !.data_dict = EmptyDict]
            ELSE IF key = K_cahaya_analog THEN
                IF CanInt(value)
                THEN [st EXCEPT !.data_dict = DictPut(@, key, IntOf(value))]
                ELSE [st EXCEPT !.data_dict = EmptyDict]
            ELSE IF key = K_hujan THEN
                [st EXCEPT !.data_dict = DictPut(@, key, Lower(value) \notin NoRainWords)]
            ELSE [st EXCEPT !.data_dict = DictPut(@, key, value)]

\* one turn of the loop over payload.split(','): st holds data_dict and rtc_time_str
ParsePair(st, pair) ==
    IF ~Contains(pair, ":") THEN st
    ELSE
        LET key == PairKey(pair)
            value == PairValue(pair)
        IN  IF key = K_waktu THEN [st EXCEPT !.rtc_time_str = Some(value)]
            ELSE IF key \in {K_suhu, K_kelembapan, K_heat_index, K_dew_point} THEN
                IF CanFloat(value)
                THEN [st EXCEPT !.data_dict = DictPut(@, key, FloatOf(value))]
                ELSE st
            ELSE IF key = K_cahaya_analog THEN
                IF CanInt(value)
                THEN [st EXCEPT !.data_dict = DictPut(@, key, IntOf(value))]
                ELSE st
            ELSE IF key = K_hujan THEN
                [st EXCEPT !.data_dict = DictPut(@, key, Lower(value) \notin NoRainWords)]
            ELSE [st EXCEPT !.data_dict = DictPut(@, key, value)]

\* the loop over payload.split(',')
RECURSIVE ParsePairs(_, _)
ParsePairs(st, pairs) ==
    IF Len(pairs) = 0 THEN st
    ELSE ParsePairs(ParsePair(st, Head(pairs)), Tail(pairs))

\* data_dict and rtc_time_str after the loop
ParsePayload(payload) ==
    ParsePairs([data_dict |-> EmptyDict, rtc_time_str |-> None],
               Split(payload, ","))

\* last_update: the RTC time of the payload, or the system time
LastUpdate(rtc_time_str, now) ==
    IF rtc_time_str # None /\ Len(rtc_time_str[1]) > 0
    THEN parse_rtc_time(rtc_time_str[1], now)
    ELSE now

\* process_sensor_data calls datetime.now(): no RTC time, or one no format matches
ReadsClock(st) ==
    ~(st.rtc_time_str # None /\ Len(st.rtc_time_str[1]) > 0
        /\ FirstFormat(st.rtc_time_str[1], 1) # 0)

\* the JemuranData built after the loop from data_dict and rtc_time_str, now
\* the value of datetime.now()
BuildRecord(st, now) ==
    LET last_update == LastUpdate(st.rtc_time_str, now)
    IN  [temperature |-> DictGet(st.data_dict, K_suhu, Float(0)),
         humidity |-> DictGet(st.data_dict, K_kelembapan, Float(0)),
         light |-> DictGet(st.data_dict, K_cahaya_analog, 0),
         rain |-> DictGet(st.data_dict, K_hujan, FALSE),
         last_update |-> last_update,
         current_hour |-> last_update.hour]

\* the JemuranData that process_sensor_data builds from a payload
JemuranData(payload, now) == BuildRecord(ParsePayload(payload), now)

\* ------------------------------------------------------------------------
\* Telemetry payloads: tokens as the sensor node writes them, each with the
\* meaning the node gives it (field, whether the value is well formed, value)
\* ------------------------------------------------------------------------

Token(text, field, good, fval, ival, bval, tval) ==
    [text |-> text, field |-> field, good |-> good,
     fval |-> fval, ival |-> ival, bval |-> bval, tval |-> tval]

NoTime == DateTime(0, 0, 0, 0, 0, 0)

FloatToken(text, field, good, v) == Token(text, field, good, v, 0, FALSE, NoTime)

IntToken(text, field, good, v) == Token(text, field, good, Float(0), v, FALSE, NoTime)

BoolToken(text, field, good, v) == Token(text, field, good, Float(0), 0, v, NoTime)

TimeToken(text, good, v) == Token(text, "last_update", good, Float(0), 0, FALSE, v)

OtherToken(text) == Token(text, "none", FALSE, Float(0), 0, FALSE, NoTime)

T_suhu_28_5 ==
    FloatToken(<<"s", "u", "h", "u", ":", "2", "8", ".", "5">>,
               "temperature", TRUE, Normalize(285, 10))

T_suhu_zero ==
    FloatToken(<<" ", "S", "U", "H", "U", " ", ":", " ", "0", " ">>,
               "temperature", TRUE, Float(0))

T_suhu_neg ==
    FloatToken(<<"S", "u", "h", "u", ":", "-", "4", ".", "5", "0">>,
               "temperature", TRUE, Normalize(-45, 10))

T_suhu_abc ==
    FloatToken(<<"s", "u", "h", "u", ":", "a", "b", "c">>,
               "temperature", FALSE, Float(0))

T_kelembapan_55 ==
    FloatToken(<<"k", "e", "l", "e", "m", "b", "a", "p", "a", "n", ":", "5",
               "5">>,
               "humidity", TRUE, Float(55))

T_kelembapan_bad ==
    FloatToken(<<"k", "e", "l", "e", "m", "b", "a", "p", "a", "n", ":", "5",
               " ", "5">>,
               "humidity", FALSE, Float(0))

T_cahaya_1800 ==
    IntToken(<<"c", "a", "h", "a", "y", "a", "_", "a", "n", "a", "l", "o",
             "g", ":", "1", "8", "0", "0">>,
             "light", TRUE, 1800)

T_cahaya_zero ==
    IntToken(<<"c", "a", "h", "a", "y", "a", "_", "a", "n", "a", "l", "o",
             "g", ":", "0">>,
             "light", TRUE, 0)

T_cahaya_bad ==
    IntToken(<<"c", "a", "h", "a", "y", "a", "_", "a", "n", "a", "l", "o",
             "g", ":", "1", "8", "0", "0", ".", "0">>,
             "light", FALSE, 0)

T_hujan_tidak ==
    BoolToken(<<"h", "u", "j", "a", "n", ":", "t", "i", "d", "a", "k", " ",
              "h", "u", "j", "a", "n">>,
              "rain", TRUE, FALSE)

T_hujan_Tidak ==
    BoolToken(<<"h", "u", "j", "a", "n", ":", " ", "T", "i", "d", "a", "k",
              " ", "H", "u", "j", "a", "n">>,
              "rain", TRUE, FALSE)

T_hujan_FALSE ==
    BoolToken(<<"h", "u", "j", "a", "n", ":", "F", "A", "L", "S", "E">>,
              "rain", TRUE, FALSE)

T_hujan_0 ==
    BoolToken(<<"h", "u", "j", "a", "n", ":", "0">>,
              "rain", TRUE, FALSE)

T_hujan_hujan ==
    BoolToken(<<"h", "u", "j", "a", "n", ":", "h", "u", "j", "a", "n">>,
              "rain", TRUE, TRUE)

T_waktu_iso ==
    TimeToken(<<"w", "a", "k", "t", "u", ":", "2", "0", "2", "5", "-", "0",
              "6", "-", "2", "4", " ", "2", "1", ":", "2", "8", ":", "4",
              "4">>,
              TRUE, DateTime(2025, 6, 24, 21, 28, 44))

T_waktu_slash ==
    TimeToken(<<"w", "a", "k", "t", "u", ":", "2", "3", "/", "0", "6", "/",
              "2", "0", "2", "5", " ", "0", "7", ":", "0", "5", ":", "0",
              "0">>,
              TRUE, DateTime(2025, 6, 23, 7, 5, 0))

T_waktu_timefirst ==
    TimeToken(<<"w", "a", "k", "t", "u", ":", "1", "3", ":", "0", "0", ":",
              "5", "9", " ", "2", "5", "-", "0", "6", "-", "2", "0", "2",
              "5">>,
              TRUE, DateTime(2025, 6, 25, 13, 0, 59))

T_waktu_T ==
    TimeToken(<<"w", "a", "k", "t", "u", ":", "2", "0", "2", "5", "-", "0",
              "6", "-", "2", "4", "T", "0", "9", ":", "0", "0", ":", "0",
              "1">>,
              TRUE, DateTime(2025, 6, 24, 9, 0, 1))

T_waktu_bad ==
    TimeToken(<<"w", "a", "k", "t", "u", ":", "2", "0", "2", "5", "/", "0",
              "6", "/", "2", "4", " ", "2", "1", ":", "2", "8", ":", "4",
              "4">>,
              FALSE, DateTime(0, 0, 0, 0, 0, 0))

T_heat_index ==
    OtherToken(<<"h", "e", "a", "t", "_", "i", "n", "d", "e", "x", ":", "3",
               "0", ".", "1">>)

T_unknown ==
    OtherToken(<<"f", "o", "o", ":", "b", "a", "r">>)

T_no_colon ==
    OtherToken(<<"s", "u", "h", "u", " ", "3", "1">>)

T_empty ==
    OtherToken(<<>>)

\* the names of the tokens
TokenNames ==
    {"suhu_28_5", "suhu_zero", "suhu_neg", "suhu_abc", "kelembapan_55",
     "kelembapan_bad", "cahaya_1800", "cahaya_zero", "cahaya_bad",
     "hujan_tidak", "hujan_Tidak", "hujan_FALSE", "hujan_0", "hujan_hujan",
     "waktu_iso", "waktu_slash", "waktu_timefirst", "waktu_T", "waktu_bad",
     "heat_index", "unknown", "no_colon", "empty"}

\* the token of a name
TokenOf(name) ==
    CASE name = "suhu_28_5" -> T_suhu_28_5
      [] name = "suhu_zero" -> T_suhu_zero
      [] name = "suhu_neg" -> T_suhu_neg
      [] name = "suhu_abc" -> T_suhu_abc
      [] name = "kelembapan_55" -> T_kelembapan_55
      [] name = "kelembapan_bad" -> T_kelembapan_bad
      [] name = "cahaya_1800" -> T_cahaya_1800
      [] name = "cahaya_zero" -> T_cahaya_zero
      [] name = "cahaya_bad" -> T_cahaya_bad
      [] name = "hujan_tidak" -> T_hujan_tidak
      [] name = "hujan_Tidak" -> T_hujan_Tidak
      [] name = "hujan_FALSE" -> T_hujan_FALSE
      [] name = "hujan_0" -> T_hujan_0
      [] name = "hujan_hujan" -> T_hujan_hujan
      [] name = "waktu_iso" -> T_waktu_iso
      [] name = "waktu_slash" -> T_waktu_slash
      [] name = "waktu_timefirst" -> T_waktu_timefirst
      [] name = "waktu_T" -> T_waktu_T
      [] name = "waktu_bad" -> T_waktu_bad
      [] name = "heat_index" -> T_heat_index
      [] name = "unknown" -> T_unknown
      [] name = "no_colon" -> T_no_colon
      [] name = "empty" -> T_empty

\* the payload of the specification's round-trip example
CanonicalTokens ==
    <<"suhu_28_5", "kelembapan_55", "cahaya_1800", "hujan_tidak", "waktu_iso">>

\* the payload text of a list of token names: ",".join(token texts)
RECURSIVE Render(_)
Render(toks) ==
    IF Len(toks) = 0 THEN <<>>
    ELSE IF Len(toks) = 1 THEN TokenOf(toks[1]).text
    ELSE TokenOf(toks[1]).text \o <<",">> \o Render(Tail(toks))

\* the sequences over S of length at most n
SeqsUpTo(S, n) == UNION {[1..k -> S] : k \in 0..n}

\* the values datetime.now() takes
Clocks == {DateTime(2025, 6, 24, 3, 4, 5), DateTime(2025, 6, 25, 14, 0, 0)}

\* the value recorded for datetime.now() where the code does not call it
DefaultClock == DateTime(2025, 6, 24, 3, 4, 5)

\* the number of tokens a payload of the parser specification adds to its base
MaxExtraTokens == 2

\* the number of telemetry messages of one behaviour
MaxMsgs == 2

\* the payloads of the parser specification
ParserMsgs ==
    {base \o extra : base \in {<<>>, CanonicalTokens},
                     extra \in SeqsUpTo(TokenNames, MaxExtraTokens)}

\* the payloads of the telemetry specification
TelemetryMsgs ==
    { CanonicalTokens,
      <<"suhu_abc", "kelembapan_55", "waktu_slash">>,
      <<"kelembapan_55", "waktu_slash">>,
      <<"suhu_zero", "kelembapan_55", "waktu_slash">> }

\* ------------------------------------------------------------------------
\* State
\* ------------------------------------------------------------------------

VARIABLES
    heap,           \* the JemuranData objects built so far, in creation order
    latest_data,    \* self.latest_data: 0 for None, else the index of an object of heap
    lock,           \* self.lock: "free" or the thread that holds it
    inbound,        \* the transport's message thread: where it is, what it is about to store
    sent,           \* history: the telemetry messages dispatched so far
    fmt,            \* a thread in get_formatted_data
    web,            \* the web layer's event loop thread in a handler that reads latest_data
    is_connected,   \* self.is_connected
    servo_status,   \* self.servo_status: None or Some(payload)
    transport,      \* the connection to the broker, as the broker sees it
    subs,           \* the topics the broker delivers to this client
    wire,           \* the client's own control messages on their way back to it
    call,           \* the publish_control call of each caller thread
    seen,           \* history: acknowledgements counted, origin of servo_status
    fz              \* a call of FuzzySystem.evaluate: its arguments and its outcome

telVars == <<heap, latest_data, lock, inbound, sent, fmt, web>>

ctlVars == <<is_connected, servo_status, transport, subs, wire, call, seen>>

vars == <<telVars, ctlVars, fz>>

\* ------------------------------------------------------------------------
\* Telemetry State: on_message for jemuran/data, process_sensor_data
\* ------------------------------------------------------------------------

InboundIdle == [pc |-> "idle", pending |-> None]

\* on_message, topic jemuran/data, a payload that decodes: process_sensor_data
\* up to the with-statement
OnMessageData(pool, maxMsgs) ==
    /\ inbound.pc = "idle"
    /\ Len(sent) < maxMsgs
    /\ \E toks \in pool :
        LET st == ParsePayload(Render(toks))
        IN  \E now \in (IF ReadsClock(st) THEN Clocks ELSE {DefaultClock}) :
                /\ sent' = Append(sent, [toks |-> toks, decodable |-> TRUE, now |-> now])
                /\ inbound' = [pc |-> "lock", pending |-> Some(BuildRecord(st, now))]
    /\ UNCHANGED <<heap, latest_data, lock, fmt, web>>
    /\ UNCHANGED <<ctlVars, fz>>

\* on_message, topic jemuran/data, a payload that is not UTF-8: UnicodeDecodeError
OnMessageUndecodable(maxMsgs) ==
    /\ inbound.pc = "idle"
    /\ Len(sent) < maxMsgs
    /\ sent' = Append(sent, [toks |-> <<>>, decodable |-> FALSE,
                             now |-> DefaultClock])
    /\ UNCHANGED <<heap, latest_data, lock, inbound, fmt, web>>
    /\ UNCHANGED <<ctlVars, fz>>

\* a store that does not wait for the lock
StoreLockUnguarded ==
    /\ inbound.pc = "lock"
    /\ lock' = lock
    /\ inbound' = [inbound EXCEPT !.pc = "store"]
    /\ UNCHANGED <<heap, latest_data, sent, fmt, web>>
    /\ UNCHANGED <<ctlVars, fz>>

\* process_sensor_data enters `with self.lock`
StoreLock ==
    /\ inbound.pc = "lock"
    /\ lock = "free"
    /\ lock' = "inbound"
    /\ inbound' = [inbound EXCEPT !.pc = "store"]
    /\ UNCHANGED <<heap, latest_data, sent, fmt, web>>
    /\ UNCHANGED <<ctlVars, fz>>

\* a store that keeps the record it has unless the new one carries a later time
StoreOnlyNewer ==
    /\ inbound.pc = "store"
    /\ heap' = Append(heap, inbound.pending[1])
    /\ latest_data' =
          IF latest_data # 0
             /\ ~Earlier(heap[latest_data].last_update, inbound.pending[1].last_update)
          THEN latest_data ELSE Len(heap) + 1
    /\ inbound' = [inbound EXCEPT !.pc = "unlock"]
    /\ UNCHANGED <<lock, sent, fmt, web>>
    /\ UNCHANGED <<ctlVars, fz>>

\* a store that keeps the record it has when a field of the message failed conversion
StoreKeepOnBadField ==
    /\ inbound.pc = "store"
    /\ heap' = Append(heap, inbound.pending[1])
    /\ latest_data' =
          IF \E i \in 1..Len(sent[Len(sent)].toks) :
                 LET tk == TokenOf(sent[Len(sent)].toks[i])
                 IN  tk.field \in {"temperature", "humidity", "light"} /\ ~tk.good
          THEN latest_data ELSE Len(heap) + 1
    /\ inbound' = [inbound EXCEPT !.pc = "unlock"]
    /\ UNCHANGED <<lock, sent, fmt, web>>
    /\ UNCHANGED <<ctlVars, fz>>

\* self.latest_data = JemuranData(...)
Store ==
    /\ inbound.pc = "store"
    /\ heap' = Append(heap, inbound.pending[1])
    /\ latest_data' = Len(heap) + 1
    /\ inbound' = [inbound EXCEPT !.pc = "unlock"]
    /\ UNCHANGED <<lock, sent, fmt, web>>
    /\ UNCHANGED <<ctlVars, fz>>

\* process_sensor_data leaves `with self.lock` and returns
StoreUnlock ==
    /\ inbound.pc = "unlock"
    /\ lock' = IF lock = "inbound" THEN "free" ELSE lock
    /\ inbound' = InboundIdle
    /\ UNCHANGED <<heap, latest_data, sent, fmt, web>>
    /\ UNCHANGED <<ctlVars, fz>>

\* ------------------------------------------------------------------------
\* Readers of Telemetry State
\* ------------------------------------------------------------------------

\* two decimal digits, zero padded
Pad2(n) == <<Digits[((n \div 10) % 10) + 1], Digits[(n % 10) + 1]>>

\* four decimal digits, zero padded
Pad4(n) == Pad2(n \div 100) \o Pad2(n % 100)

\* datetime.isoformat() of a datetime without microseconds
IsoFormat(d) ==
    Pad4(d.year) \o <<"-">> \o Pad2(d.month) \o <<"-">> \o Pad2(d.day) \o <<"T">>
    \o Pad2(d.hour) \o <<":">> \o Pad2(d.minute) \o <<":">> \o Pad2(d.second)

\* the attribute reads of get_formatted_data in the order it makes them, each
\* with the conversion applied to the value read
FmtReads ==
    << [field |-> "temperature", conv |-> "none"],
       [field |-> "humidity", conv |-> "none"],
       [field |-> "light", conv |-> "none"],
       [field |-> "rain", conv |-> "none"],
       [field |-> "last_update", conv |-> "isoformat"],
       [field |-> "temperature", conv |-> "none"],
       [field |-> "humidity", conv |-> "none"],
       [field |-> "light", conv |-> "float"],
       [field |-> "rain", conv |-> "rain01"],
       [field |-> "current_hour", conv |-> "float"] >>

\* the attribute reads of the web handlers
WebReads(op) ==
    IF op = "get_latest_data"
    THEN << [field |-> "temperature", conv |-> "none"],
            [field |-> "humidity", conv |-> "none"],
            [field |-> "light", conv |-> "none"],
            [field |-> "rain", conv |-> "none"],
            [field |-> "last_update", conv |-> "none"] >>
    ELSE << [field |-> "rain", conv |-> "rain01int"],
            [field |-> "temperature", conv |-> "none"],
            [field |-> "humidity", conv |-> "none"],
            [field |-> "light", conv |-> "none"],
            [field |-> "temperature", conv |-> "none"],
            [field |-> "humidity", conv |-> "none"],
            [field |-> "light", conv |-> "none"] >>

WebOps == {"get_latest_data", "get_recommendation"}

\* the value a reader gets from one attribute read of record rec
ReadValue(rec, rd) ==
    CASE rd.conv = "none" -> rec[rd.field]
      [] rd.conv = "float" -> Float(rec[rd.field])
      [] rd.conv = "isoformat" -> IsoFormat(rec[rd.field])
      [] rd.conv = "rain01" -> IF ~rec[rd.field] THEN Float(0) ELSE Float(1)
      [] rd.conv = "rain01int" -> IF rec[rd.field] THEN 1 ELSE 0

ReaderIdle == [pc |-> "idle", op |-> "none", latest |-> 0, got |-> <<>>]

\* get_formatted_data enters `with self.lock`
FmtLock ==
    /\ fmt.pc = "idle"
    /\ lock = "free"
    /\ lock' = "fmt"
    /\ fmt' = [fmt EXCEPT !.pc = "locked", !.op = "get_formatted_data"]
    /\ UNCHANGED <<heap, latest_data, inbound, sent, web>>
    /\ UNCHANGED <<ctlVars, fz>>

\* `if not self.latest_data: return None, None`
FmtReturnNone ==
    /\ fmt.pc = "locked"
    /\ latest_data = 0
    /\ lock' = "free"
    /\ fmt' = [fmt EXCEPT !.pc = "done"]
    /\ UNCHANGED <<heap, latest_data, inbound, sent, web>>
    /\ UNCHANGED <<ctlVars, fz>>

\* one `self.latest_data.<field>` of get_formatted_data
FmtRead ==
    /\ fmt.pc = "locked"
    /\ latest_data # 0
    /\ Len(fmt.got) < Len(FmtReads)
    /\ fmt' = [fmt EXCEPT !.got = Append(@, ReadValue(heap[latest_data],
                                                      FmtReads[Len(fmt.got) + 1]))]
    /\ UNCHANGED <<heap, latest_data, lock, inbound, sent, web>>
    /\ UNCHANGED <<ctlVars, fz>>

\* `return api_response, recommendation_input`
FmtReturn ==
    /\ fmt.pc = "locked"
    /\ Len(fmt.got) = Len(FmtReads)
    /\ lock' = "free"
    /\ fmt' = [fmt EXCEPT !.pc = "done"]
    /\ UNCHANGED <<heap, latest_data, inbound, sent, web>>
    /\ UNCHANGED <<ctlVars, fz>>

\* the caller of get_formatted_data takes the result
FmtDone ==
    /\ fmt.pc = "done"
    /\ fmt' = ReaderIdle
    /\ UNCHANGED <<heap, latest_data, lock, inbound, sent, web>>
    /\ UNCHANGED <<ctlVars, fz>>

\* a request for /api/data or /api/recommendation arrives
WebRequest ==
    /\ web.pc = "idle"
    /\ \E op \in WebOps : web' = [web EXCEPT !.pc = "check", !.op = op]
    /\ UNCHANGED <<heap, latest_data, lock, inbound, sent, fmt>>
    /\ UNCHANGED <<ctlVars, fz>>

\* `if not mqtt_client.latest_data: raise HTTPException(404)`
WebCheck ==
    /\ web.pc = "check"
    /\ web' = [web EXCEPT !.pc = IF latest_data = 0 THEN "done" ELSE "load"]
    /\ UNCHANGED <<heap, latest_data, lock, inbound, sent, fmt>>
    /\ UNCHANGED <<ctlVars, fz>>

\* `latest = mqtt_client.latest_data`
WebLoad ==
    /\ web.pc = "load"
    /\ web' = [web EXCEPT !.pc = "read", !.latest = latest_data]
    /\ UNCHANGED <<heap, latest_data, lock, inbound, sent, fmt>>
    /\ UNCHANGED <<ctlVars, fz>>

\* one `latest.<field>` of a web handler
WebRead ==
    /\ web.pc = "read"
    /\ Len(web.got) < Len(WebReads(web.op))
    /\ web' = [web EXCEPT !.got = Append(@, ReadValue(heap[web.latest],
                                                      WebReads(web.op)[Len(web.got) + 1]))]
    /\ UNCHANGED <<heap, latest_data, lock, inbound, sent, fmt>>
    /\ UNCHANGED <<ctlVars, fz>>

\* the handler has read its record
WebReturn ==
    /\ web.pc = "read"
    /\ Len(web.got) = Len(WebReads(web.op))
    /\ web' = [web EXCEPT !.pc = "done"]
    /\ UNCHANGED <<heap, latest_data, lock, inbound, sent, fmt>>
    /\ UNCHANGED <<ctlVars, fz>>

\* the response is sent
WebDone ==
    /\ web.pc = "done"
    /\ web' = ReaderIdle
    /\ UNCHANGED <<heap, latest_data, lock, inbound, sent, fmt>>
    /\ UNCHANGED <<ctlVars, fz>>

\* ------------------------------------------------------------------------
\* Link Manager: connect, on_connect, on_disconnect, on_message
\* ------------------------------------------------------------------------

Topics == {"jemuran/data", "jemuran/control", "jemuran/status"}

\* the payloads of the status messages the rack sends
StatusPayloads == {"buka", "tutup", "error"}

\* the client's own control messages that can be on their way back to it
MaxWire == 1

\* the successful acknowledgements the history counts up to
MaxAcks == 2

\* history: the successful acknowledgements so far, and the topic of the message
\* that set servo_status last
SeenNothing == [acks |-> 0, from |-> "none", drop |-> "none", inline |-> 0]

\* the threads that call publish_control
Callers == {"c1", "c2"}

CallIdle ==
    [pc |-> "idle", action |-> "none", attempt |-> 0, polls |-> 0, rc |-> "none",
     result |-> None, publishes |-> 0, connects |-> 0, matched |-> 0, inWindow |-> FALSE,
     fresh |-> FALSE]

\* history: the calls whose confirmation window is open see status payload p;
\* fresh: a message has set servo_status since the call's last publish
SeeStatus(cl, p) ==
    [c \in Callers |->
        LET cs == IF cl[c].pc \in {"published", "poll"}
                  THEN [cl[c] EXCEPT !.fresh = TRUE] ELSE cl[c]
        IN  IF cs.pc = "poll" /\ cs.action = p
            THEN [cs EXCEPT !.inWindow = TRUE] ELSE cs]

\* self.client.connect() and loop_start() succeed: CONNECT is sent on a new session
ClientConnectOk ==
    /\ transport' = "awaiting_ack"
    /\ subs' = {}
    /\ wire' = <<>>
    /\ is_connected' = TRUE

\* self.client.connect() raises: the except branch of connect()
ClientConnectRaises ==
    /\ transport' = "closed"
    /\ subs' = {}
    /\ wire' = <<>>
    /\ is_connected' = FALSE

\* connect() called by the application (the startup event)
Connect ==
    /\ ~is_connected
    /\ ClientConnectOk \/ ClientConnectRaises
    /\ UNCHANGED <<servo_status, call>>
    /\ UNCHANGED <<telVars, seen, fz>>

\* an on_connect that leaves out the control topic
OnConnectNoEcho ==
    /\ inbound.pc = "idle"
    /\ transport = "awaiting_ack"
    /\ \E rc \in {0, 5} :
        IF rc = 0
        THEN /\ is_connected' = TRUE
             /\ subs' = {"jemuran/data", "jemuran/status"}
             /\ transport' = "open"
             /\ seen' = [seen EXCEPT !.acks = IF @ < MaxAcks THEN @ + 1 ELSE @]
        ELSE /\ is_connected' = FALSE
             /\ subs' = {}
             /\ transport' = "closed"
             /\ UNCHANGED seen
    /\ UNCHANGED <<servo_status, wire, call>>
    /\ UNCHANGED <<telVars, fz>>

\* on_connect(rc): the broker answers the CONNECT
OnConnect ==
    /\ inbound.pc = "idle"
    /\ transport = "awaiting_ack"
    /\ \E rc \in {0, 5} :
        IF rc = 0
        THEN /\ is_connected' = TRUE
             /\ subs' = Topics
             /\ transport' = "open"
             /\ seen' = [seen EXCEPT !.acks = IF @ < MaxAcks THEN @ + 1 ELSE @]
        ELSE /\ is_connected' = FALSE
             /\ subs' = {}
             /\ transport' = "closed"
             /\ UNCHANGED seen
    /\ UNCHANGED <<servo_status, wire, call>>
    /\ UNCHANGED <<telVars, fz>>

\* on_disconnect(rc): the link is marked not connected; with rc # 0 the callback
\* goes on to call connect(). History: the kind of the drop, and the connect
\* attempts the callback has made for it
OnDisconnect ==
    /\ inbound.pc = "idle"
    /\ transport \in {"awaiting_ack", "open"}
    /\ is_connected' = FALSE
    /\ transport' = "closed"
    /\ subs' = {}
    /\ wire' = <<>>
    /\ \E rc \in {0, 1} :
        IF rc = 0
        THEN /\ inbound' = inbound
             /\ seen' = [seen EXCEPT !.drop = "clean", !.inline = 0]
        ELSE /\ inbound' = [pc |-> "reconnect", pending |-> None]
             /\ seen' = [seen EXCEPT !.drop = "unexpected", !.inline = 0]
    /\ UNCHANGED <<servo_status, call>>
    /\ UNCHANGED <<heap, latest_data, lock, sent, fmt, web, fz>>

\* an on_disconnect that calls connect() again when it has failed
OnDisconnectReconnectRetrying ==
    /\ inbound.pc = "reconnect"
    /\ IF is_connected
       THEN /\ inbound' = InboundIdle
            /\ UNCHANGED <<is_connected, transport, subs, wire, seen>>
       ELSE \/ /\ ClientConnectOk
               /\ inbound' = InboundIdle
               /\ seen' = [seen EXCEPT !.inline = @ + 1]
            \/ /\ ClientConnectRaises
               /\ inbound' = IF seen.inline < 1 THEN inbound ELSE InboundIdle
               /\ seen' = [seen EXCEPT !.inline = @ + 1]
    /\ UNCHANGED <<servo_status, call>>
    /\ UNCHANGED <<heap, latest_data, lock, sent, fmt, web, fz>>

\* the `self.connect()` of on_disconnect: one attempt unless the link has been
\* marked connected meanwhile; `except Exception` swallows its failure
OnDisconnectReconnect ==
    /\ inbound.pc = "reconnect"
    /\ IF is_connected
       THEN /\ inbound' = InboundIdle
            /\ UNCHANGED <<is_connected, transport, subs, wire, seen>>
       ELSE /\ ClientConnectOk \/ ClientConnectRaises
            /\ inbound' = InboundIdle
            /\ seen' = [seen EXCEPT !.inline = @ + 1]
    /\ UNCHANGED <<servo_status, call>>
    /\ UNCHANGED <<heap, latest_data, lock, sent, fmt, web, fz>>

\* disconnect(): loop_stop(), client.disconnect(), and the link is marked not
\* connected; nothing is done when it is not marked connected
Disconnect ==
    /\ inbound.pc = "idle"
    /\ is_connected
    /\ is_connected' = FALSE
    /\ transport' = "closed"
    /\ subs' = {}
    /\ wire' = <<>>
    /\ seen' = [seen EXCEPT !.drop = "clean", !.inline = 0]
    /\ UNCHANGED <<servo_status, call>>
    /\ UNCHANGED <<telVars, fz>>

\* on_message, topic jemuran/status, with a payload of the given set
OnMessageStatusOf(payloads) ==
    /\ inbound.pc = "idle"
    /\ transport = "open"
    /\ "jemuran/status" \in subs
    /\ \E p \in payloads :
        /\ servo_status' = Some(p)
        /\ call' = SeeStatus(call, p)
    /\ seen' = [seen EXCEPT !.from = "jemuran/status"]
    /\ UNCHANGED <<is_connected, transport, subs, wire>>
    /\ UNCHANGED <<telVars, fz>>

\* on_message, topic jemuran/status
OnMessageStatus == OnMessageStatusOf(StatusPayloads)

\* on_message, topic jemuran/control: the client's own command comes back
OnMessageControl ==
    /\ inbound.pc = "idle"
    /\ transport = "open"
    /\ "jemuran/control" \in subs
    /\ Len(wire) > 0
    /\ servo_status' = Some(Head(wire))
    /\ call' = SeeStatus(call, Head(wire))
    /\ wire' = Tail(wire)
    /\ seen' = [seen EXCEPT !.from = "jemuran/control"]
    /\ UNCHANGED <<is_connected, transport, subs>>
    /\ UNCHANGED <<telVars, fz>>

\* a control message on its way back is lost (the subscription is QoS 0)
WireLoss ==
    /\ Len(wire) > 0
    /\ wire' = Tail(wire)
    /\ UNCHANGED <<is_connected, servo_status, transport, subs, call>>
    /\ UNCHANGED <<telVars, seen, fz>>

\* ------------------------------------------------------------------------
\* Actuator Controller: publish_control
\* ------------------------------------------------------------------------

\* the default of the parameter max_retries
max_retries == 3

\* the polls of servo_status one confirmation window has time for
MaxPolls == 2

ValidActions == {"buka", "tutup"}

\* the action strings callers pass
ActionInputs == {"buka", "tutup", "stop"}

Outcome(ok, kind, action, attempts) ==
    [ok |-> ok, kind |-> kind, action |-> action, attempts |-> attempts]

\* a loop that makes one attempt too few
NextAttemptOffByOne(cs) ==
    IF cs.attempt + 1 < max_retries
    THEN [cs EXCEPT !.pc = "attempt", !.attempt = @ + 1, !.polls = 0, !.rc = "none",
                    !.fresh = FALSE]
    ELSE [cs EXCEPT !.pc = "done",
                    !.result = Some(Outcome(FALSE, "exhausted", cs.action, max_retries))]

\* `continue`, or the end of the loop: the next attempt, or the failure return
\* after the last one
NextAttempt(cs) ==
    IF cs.attempt < max_retries
    THEN [cs EXCEPT !.pc = "attempt", !.attempt = @ + 1, !.polls = 0, !.rc = "none",
                    !.fresh = FALSE]
    ELSE [cs EXCEPT !.pc = "done",
                    !.result = Some(Outcome(FALSE, "exhausted", cs.action, max_retries))]

\* a call that starts its first attempt whatever the action
CallNoValidation(c) ==
    /\ call[c].pc = "idle"
    /\ \E a \in ActionInputs :
        call' = [call EXCEPT ![c] = [CallIdle EXCEPT !.pc = "attempt", !.action = a,
                                                    !.attempt = 1]]
    /\ UNCHANGED <<is_connected, servo_status, transport, subs, wire>>
    /\ UNCHANGED <<telVars, seen, fz>>

\* publish_control(action) is called: the validation, then the first attempt
Call(c) ==
    /\ call[c].pc = "idle"
    /\ \E a \in ActionInputs :
        call' = [call EXCEPT ![c] =
                    IF a \notin ValidActions
                    THEN [CallIdle EXCEPT !.pc = "done", !.action = a,
                                          !.result = Some(Outcome(FALSE, "invalid", a, 0))]
                    ELSE [CallIdle EXCEPT !.pc = "attempt", !.action = a, !.attempt = 1]]
    /\ UNCHANGED <<is_connected, servo_status, transport, subs, wire>>
    /\ UNCHANGED <<telVars, seen, fz>>

\* `if not self.is_connected:` at the head of an attempt
CheckConnected(c) ==
    /\ call[c].pc = "attempt"
    /\ call' = [call EXCEPT ![c].pc = IF is_connected THEN "publish" ELSE "connect"]
    /\ UNCHANGED <<is_connected, servo_status, transport, subs, wire>>
    /\ UNCHANGED <<telVars, seen, fz>>

\* self.connect() inside an attempt, up to its sleep; an exception ends the attempt
Reconnect(c) ==
    /\ call[c].pc = "connect"
    /\ IF is_connected
       THEN /\ call' = [call EXCEPT ![c].pc = "connected"]
            /\ UNCHANGED <<is_connected, transport, subs, wire>>
       ELSE \/ /\ ClientConnectOk
               /\ call' = [call EXCEPT ![c].pc = "connected", ![c].connects = @ + 1]
            \/ /\ ClientConnectRaises
               /\ call' = [call EXCEPT ![c] = NextAttempt([call[c] EXCEPT !.connects = @ + 1])]
    /\ UNCHANGED servo_status
    /\ UNCHANGED <<telVars, seen, fz>>

\* an attempt that goes on to publish whatever connect() achieved
AfterReconnectNoContinue(c) ==
    /\ call[c].pc = "connected"
    /\ call' = [call EXCEPT ![c].pc = "publish"]
    /\ UNCHANGED <<is_connected, servo_status, transport, subs, wire>>
    /\ UNCHANGED <<telVars, seen, fz>>

\* `if not self.is_connected: continue` after connect() returned
AfterReconnect(c) ==
    /\ call[c].pc = "connected"
    /\ call' = [call EXCEPT ![c] = IF is_connected THEN [@ EXCEPT !.pc = "publish"]
                                   ELSE NextAttempt(@)]
    /\ UNCHANGED <<is_connected, servo_status, transport, subs, wire>>
    /\ UNCHANGED <<telVars, seen, fz>>

\* a publish that resets self.servo_status to None before it sends
PublishResetting(c) ==
    /\ call[c].pc = "publish"
    /\ \/ /\ transport # "closed"
          /\ call' = [call EXCEPT ![c].pc = "published", ![c].rc = "success",
                                  ![c].publishes = @ + 1, ![c].fresh = FALSE]
          /\ wire' = IF transport = "open" /\ "jemuran/control" \in subs
                        /\ Len(wire) < MaxWire
                     THEN Append(wire, call[c].action) ELSE wire
       \/ /\ call' = [call EXCEPT ![c].pc = "published", ![c].rc = "error",
                                  ![c].publishes = @ + 1, ![c].fresh = FALSE]
          /\ UNCHANGED wire
       \/ /\ call' = [call EXCEPT ![c] = NextAttempt([call[c] EXCEPT !.publishes = @ + 1])]
          /\ UNCHANGED wire
    /\ servo_status' = None
    /\ UNCHANGED <<is_connected, transport, subs>>
    /\ UNCHANGED <<telVars, seen, fz>>

\* self.client.publish("jemuran/control", action, qos=1): a result code, or an
\* exception that ends the attempt
Publish(c) ==
    /\ call[c].pc = "publish"
    /\ \/ /\ transport # "closed"
          /\ call' = [call EXCEPT ![c].pc = "published", ![c].rc = "success",
                                  ![c].publishes = @ + 1, ![c].fresh = FALSE]
          /\ wire' = IF transport = "open" /\ "jemuran/control" \in subs
                        /\ Len(wire) < MaxWire
                     THEN Append(wire, call[c].action) ELSE wire
       \/ /\ call' = [call EXCEPT ![c].pc = "published", ![c].rc = "error",
                                  ![c].publishes = @ + 1, ![c].fresh = FALSE]
          /\ UNCHANGED wire
       \/ /\ call' = [call EXCEPT ![c] = NextAttempt([call[c] EXCEPT !.publishes = @ + 1])]
          /\ UNCHANGED wire
    /\ UNCHANGED <<is_connected, servo_status, transport, subs>>
    /\ UNCHANGED <<telVars, seen, fz>>

\* a confirmation wait that is made under `with self.lock`
CheckResultLocking(c) ==
    /\ call[c].pc = "published"
    /\ lock = "free"
    /\ lock' = IF call[c].rc = "success" THEN c ELSE lock
    /\ call' = [call EXCEPT ![c] =
                    IF call[c].rc = "success"
                    THEN [@ EXCEPT !.pc = "poll", !.polls = 0,
                                   !.inWindow = @ \/ servo_status = Some(call[c].action)]
                    ELSE NextAttempt(@)]
    /\ UNCHANGED <<is_connected, servo_status, transport, subs, wire>>
    /\ UNCHANGED <<heap, latest_data, inbound, sent, fmt, web, seen, fz>>

\* a check that opens the confirmation window whatever the publish returned
CheckResultAnyRc(c) ==
    /\ call[c].pc = "published"
    /\ call' = [call EXCEPT ![c] = [@ EXCEPT !.pc = "poll", !.polls = 0,
                         !.inWindow = @ \/ servo_status = Some(call[c].action)]]
    /\ UNCHANGED <<is_connected, servo_status, transport, subs, wire>>
    /\ UNCHANGED <<telVars, seen, fz>>

\* `if result.rc == mqtt.MQTT_ERR_SUCCESS:` after the sleep: the window opens
CheckResult(c) ==
    /\ call[c].pc = "published"
    /\ call' = [call EXCEPT ![c] =
                    IF call[c].rc = "success"
                    THEN [@ EXCEPT !.pc = "poll", !.polls = 0,
                                   !.inWindow = @ \/ servo_status = Some(call[c].action)]
                    ELSE NextAttempt(@)]
    /\ UNCHANGED <<is_connected, servo_status, transport, subs, wire>>
    /\ UNCHANGED <<telVars, seen, fz>>

\* a confirmation loop that sees the match and keeps polling
PollNoReturn(c) ==
    /\ call[c].pc = "poll"
    /\ call[c].polls < MaxPolls
    /\ call' = [call EXCEPT ![c] =
                    IF servo_status = Some(call[c].action)
                    THEN [@ EXCEPT !.polls = @ + 1, !.matched = call[c].attempt]
                    ELSE [@ EXCEPT !.polls = @ + 1]]
    /\ UNCHANGED <<is_connected, servo_status, transport, subs, wire>>
    /\ UNCHANGED <<telVars, seen, fz>>

\* one turn of the confirmation loop: `if self.servo_status == action: return True, ...`
Poll(c) ==
    /\ call[c].pc = "poll"
    /\ call[c].polls < MaxPolls
    /\ call' = [call EXCEPT ![c] =
                    IF servo_status = Some(call[c].action)
                    THEN [@ EXCEPT !.pc = "done", !.matched = call[c].attempt,
                                   !.result = Some(Outcome(TRUE, "confirmed", call[c].action,
                                                           call[c].attempt))]
                    ELSE [@ EXCEPT !.polls = @ + 1]]
    /\ UNCHANGED <<is_connected, servo_status, transport, subs, wire>>
    /\ UNCHANGED <<telVars, seen, fz>>

\* the window elapses: `while time.time() < timeout` is false; it is true the
\* first time, timeout being five seconds ahead
WindowElapsed(c) ==
    /\ call[c].pc = "poll"
    /\ call[c].polls >= 1
    /\ call' = [call EXCEPT ![c] = NextAttempt(@)]
    /\ UNCHANGED <<is_connected, servo_status, transport, subs, wire>>
    /\ UNCHANGED <<telVars, seen, fz>>

\* the caller takes the outcome
Return(c) ==
    /\ call[c].pc = "done"
    /\ call' = [call EXCEPT ![c] = CallIdle]
    /\ UNCHANGED <<is_connected, servo_status, transport, subs, wire>>
    /\ UNCHANGED <<telVars, seen, fz>>

\* ------------------------------------------------------------------------
\* Drying Advisor: FuzzySystem (scikit-fuzzy control system)
\* ------------------------------------------------------------------------

\* Membership degrees are exact fractions of Unit: Unit stands for 1.0, and
\* every slope of the membership functions below divides it.
Unit == 30 * 7000

\* the degrees at which the output sets are cut without adding a point to the
\* output universe 0..100: the multiples of 1/30
CutStep == Unit \div 30

\* temperature and humidity are floats: they are held in tenths
Tenths == 10

Min2(a, b) == IF a <= b THEN a ELSE b

Max2(a, b) == IF a >= b THEN a ELSE b

\* fuzz.trimf(universe, [a, b, c]) at the point x of the universe
Trimf(x, a, b, c) ==
    IF x = b THEN Unit
    ELSE IF a < x /\ x < b THEN (Unit * (x - a)) \div (b - a)
    ELSE IF b < x /\ x < c THEN (Unit * (c - x)) \div (c - b)
    ELSE 0

\* fuzz.trapmf(universe, [a, b, c, d]) at the point x of the universe
Trapmf(x, a, b, c, d) ==
    IF x < a \/ x > d THEN 0
    ELSE IF x >= c THEN Trimf(x, c, c, d)
    ELSE IF x <= b THEN Trimf(x, a, b, b)
    ELSE Unit

\* the membership functions of _setup_membership_functions, at a point of
\* their universe
TemperatureMf(label, x) ==
    CASE label = "cold" -> Trapmf(x, 0, 0, 15, 22)
      [] label = "normal" -> Trimf(x, 20, 25, 30)
      [] label = "hot" -> Trapmf(x, 28, 32, 50, 50)

HumidityMf(label, x) ==
    CASE label = "dry" -> Trapmf(x, 0, 0, 30, 50)
      [] label = "normal" -> Trimf(x, 40, 60, 80)
      [] label = "humid" -> Trapmf(x, 70, 80, 100, 100)

LightMf(label, x) ==
    CASE label = "dark" -> Trapmf(x, 2500, 3000, 4096, 4096)
      [] label = "medium" -> Trimf(x, 1000, 2000, 3000)
      [] label = "bright" -> Trapmf(x, 0, 0, 1500, 2000)

\* a no_rain set centred on 0.5 instead of 0
NoRainCentred(label, x) ==
    CASE label = "no_rain" -> Trimf(2 * x, 0, 1, 2)
      [] label = "rain" -> Trimf(2 * x, 1, 2, 2)

\* rain: the break point 0.5 lies between the two points of the universe, so
\* the points are doubled
RainMf(label, x) ==
    CASE label = "no_rain" -> Trimf(2 * x, 0, 0, 1)
      [] label = "rain" -> Trimf(2 * x, 1, 2, 2)

TimeMf(label, x) ==
    CASE label = "morning" -> Trapmf(x, 5, 7, 10, 12)
      [] label = "afternoon" -> Trapmf(x, 10, 12, 15, 17)
      [] label = "evening" -> Trapmf(x, 15, 17, 19, 21)
      [] label = "night" -> Trapmf(x, 19, 21, 23, 24)

RecommendationMf(label, x) ==
    CASE label = "bad" -> Trimf(x, 0, 0, 30)
      [] label = "fair" -> Trimf(x, 20, 50, 80)
      [] label = "good" -> Trimf(x, 70, 100, 100)

\* the universes np.arange(lo, hi, 1): their first and last points
UniverseMax(name) ==
    CASE name = "temperature" -> 49
      [] name = "humidity" -> 99
      [] name = "light" -> 4095
      [] name = "rain" -> 1
      [] name = "time" -> 23
      [] name = "recommendation" -> 100

\* simulation.input[name] = value: the value is clipped to the universe
ClipToUniverse(name, value, scale) ==
    Max2(0, Min2(value, UniverseMax(name) * scale))

\* fuzz.interp_membership for a value in tenths: linear between the two points
\* of the universe around it
InterpTenths(v, lo, hi) ==
    ((Tenths - (v % Tenths)) * lo + (v % Tenths) * hi) \div Tenths

\* the membership degrees of the five inputs (temperature and humidity in
\* tenths, the others whole)
Fuzzify(in) ==
    LET t == ClipToUniverse("temperature", in.temperature, Tenths)
        h == ClipToUniverse("humidity", in.humidity, Tenths)
        l == ClipToUniverse("light", in.light, 1)
        r == ClipToUniverse("rain", in.rain, 1)
        tm == ClipToUniverse("time", in.time, 1)
        ti == t \div Tenths
        hi == h \div Tenths
        tn == Min2(ti + 1, UniverseMax("temperature"))
        hn == Min2(hi + 1, UniverseMax("humidity"))
    IN  [cold |-> InterpTenths(t, TemperatureMf("cold", ti), TemperatureMf("cold", tn)),
         t_normal |-> InterpTenths(t, TemperatureMf("normal", ti), TemperatureMf("normal", tn)),
         hot |-> InterpTenths(t, TemperatureMf("hot", ti), TemperatureMf("hot", tn)),
         dry |-> InterpTenths(h, HumidityMf("dry", hi), HumidityMf("dry", hn)),
         h_normal |-> InterpTenths(h, HumidityMf("normal", hi), HumidityMf("normal", hn)),
         humid |-> InterpTenths(h, HumidityMf("humid", hi), HumidityMf("humid", hn)),
         dark |-> LightMf("dark", l),
         medium |-> LightMf("medium", l),
         bright |-> LightMf("bright", l),
         no_rain |-> RainMf("no_rain", r),
         rain |-> RainMf("rain", r),
         morning |-> TimeMf("morning", tm),
         afternoon |-> TimeMf("afternoon", tm),
         evening |-> TimeMf("evening", tm),
         night |-> TimeMf("night", tm)]

\* a rule base without the effect of the default rule
RuleStrengthsNoDefault(m) ==
    [rule1 |-> m.rain,
     rule2 |-> Min2(m.no_rain, m.night),
     rule3 |-> Min2(m.no_rain, Min2(m.afternoon, Min2(m.t_normal,
                    Min2(m.h_normal, m.bright)))),
     rule4 |-> Min2(m.no_rain, Min2(Max2(m.morning, m.evening),
                    Min2(Max2(m.t_normal, m.hot), m.h_normal))),
     rule5 |-> Min2(m.no_rain, Max2(m.medium, m.humid)),
     rule6 |-> Min2(m.cold, m.humid),
     rule7 |-> 0]

\* the firing strengths of the seven rules of _setup_rules: & is min, | is max
RuleStrengths(m) ==
    [rule1 |-> m.rain,
     rule2 |-> Min2(m.no_rain, m.night),
     rule3 |-> Min2(m.no_rain, Min2(m.afternoon, Min2(m.t_normal,
                    Min2(m.h_normal, m.bright)))),
     rule4 |-> Min2(m.no_rain, Min2(Max2(m.morning, m.evening),
                    Min2(Max2(m.t_normal, m.hot), m.h_normal))),
     rule5 |-> Min2(m.no_rain, Max2(m.medium, m.humid)),
     rule6 |-> Min2(m.cold, m.humid),
     rule7 |-> m.no_rain]

RuleNames == {"rule1", "rule2", "rule3", "rule4", "rule5", "rule6", "rule7"}

\* a rule base in which rule 1 concludes fair
CutsRainFair(s) ==
    [bad |-> Max2(s.rule2, s.rule6),
     fair |-> Max2(s.rule1, Max2(s.rule4, Max2(s.rule5, s.rule7))),
     good |-> s.rule3]

\* the degree at which each output set is cut: the maximum over the rules
\* that conclude it
Cuts(s) ==
    [bad |-> Max2(s.rule1, Max2(s.rule2, s.rule6)),
     fair |-> Max2(s.rule4, Max2(s.rule5, s.rule7)),
     good |-> s.rule3]

\* the cuts add no point to the output universe
OnGrid(cuts) ==
    cuts.bad % CutStep = 0 /\ cuts.fair % CutStep = 0 /\ cuts.good % CutStep = 0

\* the aggregated output set at the point x of 0..100, in thirtieths
OutputMf(cuts, x) ==
    Max2(Min2(cuts.bad, RecommendationMf("bad", x)),
         Max2(Min2(cuts.fair, RecommendationMf("fair", x)),
              Min2(cuts.good, RecommendationMf("good", x)))) \div CutStep

\* fuzz.centroid sums moment * area and area over the segments x..x+1 of the
\* universe; a segment with the values y1, y2 at its ends has six times
\* moment * area = 3x(y1 + y2) + y1 + 2 y2 and six times area = 3(y1 + y2).
\* Collected by point, the value y at the point x enters the two sums with
\* these weights:
MomentWeight(x) ==
    IF x = 0 THEN 1
    ELSE IF x = UniverseMax("recommendation") THEN 3 * x - 1
    ELSE 6 * x

AreaWeight(x) == IF x = 0 \/ x = UniverseMax("recommendation") THEN 3 ELSE 6

\* the share of the point x of the output universe in the two sums
PointSums(cuts, x) ==
    LET y == OutputMf(cuts, x)
    IN  IF y = 0 THEN [moment |-> 0, area |-> 0]
        ELSE [moment |-> MomentWeight(x) * y, area |-> AreaWeight(x) * y]

RECURSIVE SegmentSums(_, _, _)
\* fuzz.centroid: sum_moment_area and sum_area over the points lo..hi
SegmentSums(cuts, lo, hi) ==
    IF lo = hi THEN PointSums(cuts, lo)
    ELSE LET mid == (lo + hi) \div 2
             left == SegmentSums(cuts, lo, mid)
             right == SegmentSums(cuts, mid + 1, hi)
         IN  [moment |-> left.moment + right.moment, area |-> left.area + right.area]

\* fuzz.defuzz(universe, output_mf, 'centroid'): the crisp output as the
\* fraction num/den, or the ValueError of an output set without area
Defuzz(sums) ==
    IF sums.area = 0 THEN [raised |-> TRUE, output |-> None]
    ELSE [raised |-> FALSE, output |-> Some([num |-> sums.moment, den |-> sums.area])]

\* simulation.compute(): simulation.output['recommendation'], or the ValueError
Compute(in) ==
    Defuzz(SegmentSums(Cuts(RuleStrengths(Fuzzify(in))), 0,
                       UniverseMax("recommendation")))

\* `if output >= 40` in place of `elif output >= 30`
CategoryHighFloor(out) ==
    IF out.num >= 70 * out.den THEN "bagus"
    ELSE IF out.num >= 40 * out.den THEN "cukup"
    ELSE "buruk"

\* the recommendation level of the crisp output num/den
Category(out) ==
    IF out.num >= 70 * out.den THEN "bagus"
    ELSE IF out.num >= 30 * out.den THEN "cukup"
    ELSE "buruk"

\* raise HTTPException(status_code, detail): evaluate returns nothing
HttpError(status_code, detail) ==
    [status |-> "raised", status_code |-> status_code, detail |-> detail,
     recommendation |-> "none",
     confidence |-> [num |-> 0, den |-> 1], defaulted |-> FALSE,
     rules_activated |-> <<>>,
     input_parameters |-> [temperature |-> 0, humidity |-> 0, light |-> 0,
                           rain |-> 0, time |-> 0]]

\* the dict evaluate returns; status_code 0: no HTTPException is raised
Recommendation(out, defaulted, in) ==
    [status |-> "success", status_code |-> 0, detail |-> "",
     recommendation |-> Category(out),
     confidence |-> out, defaulted |-> defaulted,
     rules_activated |-> <<"rule1", "rule3">>,
     input_parameters |-> in]

\* a validation with the bounds themselves excluded
InDomainStrict(value, hi) == 0 < value /\ value < hi * Tenths

\* `0 <= temperature <= 50`, `0 <= humidity <= 100`, the value in tenths
InDomain(value, hi) == 0 <= value /\ value <= hi * Tenths

\* light = max(0, min(light, 4096)) when it is outside 0..4096
ClampLight(light) == IF 0 <= light /\ light <= 4096 THEN light ELSE Max2(0, Min2(light, 4096))

\* rain = 1 if rain else 0 when it is neither 0 nor 1
CoerceRain(rain) == IF rain \in {0, 1} THEN rain ELSE IF rain # 0 THEN 1 ELSE 0

\* an evaluate that passes the hour on as it is given
KeepTime(time) == time

\* time = time % 24 when it is outside 0..23
NormalizeTime(time) == IF 0 <= time /\ time < 24 THEN time ELSE time % 24

\* the inputs after the corrections of evaluate; light is an int here
Corrected(a) ==
    [temperature |-> a.temperature, humidity |-> a.humidity,
     light |-> ClampLight(a.light[1]), rain |-> CoerceRain(a.rain),
     time |-> NormalizeTime(a.time)]

\* FuzzySystem.evaluate(temperature, humidity, light, rain, time); light None
\* stands for a value that is no number
evaluate(a) ==
    IF ~InDomain(a.temperature, 50)
    THEN HttpError(400, "Temperature must be between 0-50")
    ELSE IF ~InDomain(a.humidity, 100)
    THEN HttpError(400, "Humidity must be between 0-100")
    ELSE IF a.light = None
    THEN HttpError(500, "Internal server error during fuzzy evaluation")
    ELSE LET in == Corrected(a)
             sim == Compute(in)
         IN  IF sim.raised
             THEN HttpError(400, "Crisp output cannot be calculated")
             ELSE IF sim.output = None
             THEN Recommendation([num |-> 50, den |-> 1], TRUE, in)
             ELSE Recommendation(sim.output[1], FALSE, in)

\* the arguments evaluate is called with: temperature and humidity in tenths
Temperatures == {-1, 0, 180, 225, 250, 300, 500, 501}

Humidities == {-1, 0, 500, 600, 800, 1000, 1001}

Lights == {None, Some(-10), Some(0), Some(1750), Some(2000), Some(4096), Some(5000)}

Rains == {0, 1, 2}

Times == {-1, 1, 6, 11, 13, 20, 23, 25}

\* evaluate reaches simulation.compute() with these arguments
Computes(a) ==
    InDomain(a.temperature, 50) /\ InDomain(a.humidity, 100) /\ a.light # None

FuzzyArgs ==
    {a \in [temperature : Temperatures, humidity : Humidities, light : Lights,
            rain : Rains, time : Times] :
        Computes(a) => OnGrid(Cuts(RuleStrengths(Fuzzify(Corrected(a)))))}

FuzzyIdle == [pc |-> "idle", args |-> None, result |-> None]

\* fuzzy_system.evaluate(...) is called and runs to its return or its exception
EvaluateCall ==
    /\ fz.pc = "idle"
    /\ \E a \in FuzzyArgs :
        fz' = [pc |-> "done", args |-> Some(a), result |-> Some(evaluate(a))]
    /\ UNCHANGED <<telVars, ctlVars>>

\* the caller takes the result
EvaluateReturn ==
    /\ fz.pc = "done"
    /\ fz' = FuzzyIdle
    /\ UNCHANGED <<telVars, ctlVars>>

\* the records mqtt_client.latest_data can hold when a recommendation is asked
\* for (None: no telemetry yet), temperature and humidity in tenths
LatestRecords ==
    {None} \cup {Some(r) : r \in [temperature : Temperatures, humidity : Humidities,
                                   light : {0, 1750, 5000}, rain : BOOLEAN]}

\* datetime.now().hour
Hours == {1, 13, 23}

\* the arguments get_recommendation passes to fuzzy_system.evaluate
RecommendArgs(latest, hour) ==
    [temperature |-> latest.temperature, humidity |-> latest.humidity,
     light |-> Some(latest.light), rain |-> IF latest.rain THEN 1 ELSE 0,
     time |-> hour % 24]

\* get_recommendation(): 404 without telemetry; inside the try the HTTPException
\* of evaluate is caught by `except Exception` and raised again with status 500
get_recommendation(latest, hour) ==
    IF latest = None
    THEN HttpError(404, "Data sensor tidak tersedia untuk membuat rekomendasi")
    ELSE LET result == evaluate(RecommendArgs(latest[1], hour))
         IN  IF result.status = "raised"
             THEN HttpError(500, "Terjadi kesalahan saat membuat rekomendasi")
             ELSE IF result.status = "error"
             THEN HttpError(500, "Kesalahan sistem fuzzy")
             ELSE [result EXCEPT !.status_code = 200]

\* GET /api/recommendation is served to its response or its HTTPException
RecommendCall ==
    /\ fz.pc = "idle"
    /\ \E latest \in LatestRecords, hour \in Hours :
        /\ latest # None => RecommendArgs(latest[1], hour) \in FuzzyArgs
        /\ fz' = [pc |-> "served", args |-> latest,
                  result |-> Some(get_recommendation(latest, hour))]
    /\ UNCHANGED <<telVars, ctlVars>>

\* the client takes the response
RecommendReturn ==
    /\ fz.pc = "served"
    /\ fz' = FuzzyIdle
    /\ UNCHANGED <<telVars, ctlVars>>

\* ------------------------------------------------------------------------
\* Specifications
\* ------------------------------------------------------------------------

\* the state after MQTTClient.__init__
Init ==
    /\ heap = <<>>
    /\ latest_data = 0
    /\ lock = "free"
    /\ inbound = InboundIdle
    /\ sent = <<>>
    /\ fmt = ReaderIdle
    /\ web = ReaderIdle
    /\ is_connected = FALSE
    /\ servo_status = None
    /\ transport = "closed"
    /\ subs = {}
    /\ wire = <<>>
    /\ call = [c \in Callers |-> CallIdle]
    /\ seen = SeenNothing
    /\ fz = FuzzyIdle

\* the parser: one telemetry message, of any payload of ParserMsgs
NextParser ==
    \/ OnMessageData(ParserMsgs, 1)
    \/ StoreLock
    \/ Store
    \/ StoreUnlock

SpecParser == Init /\ [][NextParser]_vars

\* Telemetry State: the message thread and the readers
NextTelemetry ==
    \/ OnMessageData(TelemetryMsgs, MaxMsgs)
    \/ OnMessageUndecodable(MaxMsgs)
    \/ StoreLock
    \/ Store
    \/ StoreUnlock
    \/ FmtLock
    \/ FmtReturnNone
    \/ FmtRead
    \/ FmtReturn
    \/ FmtDone
    \/ WebRequest
    \/ WebCheck
    \/ WebLoad
    \/ WebRead
    \/ WebReturn
    \/ WebDone

SpecTelemetry == Init /\ [][NextTelemetry]_vars

\* the link and one caller of publish_control
Next ==
    \/ Connect
    \/ Disconnect
    \/ OnConnect
    \/ OnDisconnect
    \/ OnDisconnectReconnect
    \/ OnMessageStatus
    \/ OnMessageControl
    \/ WireLoss
    \/ Call("c1")
    \/ CheckConnected("c1")
    \/ Reconnect("c1")
    \/ AfterReconnect("c1")
    \/ Publish("c1")
    \/ CheckResult("c1")
    \/ Poll("c1")
    \/ WindowElapsed("c1")
    \/ Return("c1")

Spec == Init /\ [][Next]_vars

\* the number of telemetry messages that arrive during a command
MaxCommandMsgs == 1

\* a command in progress while telemetry arrives and is read: the inbound
\* thread, a reader of get_formatted_data and one publish_control call
NextCommand ==
    \/ OnMessageData({CanonicalTokens}, MaxCommandMsgs)
    \/ StoreLock
    \/ Store
    \/ StoreUnlock
    \/ FmtLock
    \/ FmtReturnNone
    \/ FmtRead
    \/ FmtReturn
    \/ FmtDone
    \/ Connect
    \/ OnConnect
    \/ OnMessageStatusOf({"buka"})
    \/ Call("c1")
    \/ CheckConnected("c1")
    \/ Reconnect("c1")
    \/ AfterReconnect("c1")
    \/ Publish("c1")
    \/ CheckResult("c1")
    \/ Poll("c1")
    \/ WindowElapsed("c1")
    \/ Return("c1")

SpecCommand == Init /\ [][NextCommand]_vars

\* the steps of a running publish_control call: the executor thread that runs
\* it is scheduled again and again, its sleeps and its window being finite
Proceed(c) ==
    \/ CheckConnected(c)
    \/ Reconnect(c)
    \/ AfterReconnect(c)
    \/ Publish(c)
    \/ CheckResult(c)
    \/ Poll(c)
    \/ WindowElapsed(c)

SpecLive == Spec /\ WF_vars(Proceed("c1"))

\* the link and the callers of async_publish_control: each call runs
\* publish_control on a thread of the default executor
NextConcurrent ==
    \/ Connect
    \/ OnConnect
    \/ OnMessageStatusOf({"buka"})
    \/ \E c \in Callers : Call(c)
    \/ \E c \in Callers : CheckConnected(c)
    \/ \E c \in Callers : Reconnect(c)
    \/ \E c \in Callers : AfterReconnect(c)
    \/ \E c \in Callers : Publish(c)
    \/ \E c \in Callers : CheckResult(c)
    \/ \E c \in Callers : Poll(c)
    \/ \E c \in Callers : WindowElapsed(c)
    \/ \E c \in Callers : Return(c)

SpecConcurrent == Init /\ [][NextConcurrent]_vars

\* the Drying Advisor: calls of evaluate, one at a time
NextFuzzy ==
    \/ EvaluateCall
    \/ EvaluateReturn
    \/ RecommendCall
    \/ RecommendReturn

SpecFuzzy == Init /\ [][NextFuzzy]_vars

\* ------------------------------------------------------------------------
\* Claims about publish_control (specification Spec)
\* ------------------------------------------------------------------------

ResultOf(c) == call[c].result[1]

Returned(c) == call[c].pc = "done" /\ call[c].result # None

\* C1: a call with a valid action, during whose confirmation windows the status
\* value never equalled the action, returns (False, message) at the end of
\* attempt max_retries and not earlier or later: it has started exactly
\* max_retries attempts, made at most max_retries publishes, and its message
\* names the action and the attempt count.
C1_FailureAfterMaxRetries ==
    \A c \in Callers :
        /\ call[c].attempt <= max_retries
        /\ call[c].publishes <= call[c].attempt
        /\ (call[c].pc = "done" /\ call[c].action \in ValidActions /\ ~call[c].inWindow)
              => /\ call[c].result = Some(Outcome(FALSE, "exhausted", call[c].action,
                                                  max_retries))
                 /\ call[c].attempt = max_retries
                 /\ call[c].publishes <= max_retries

\* C1 witness: a call that published in each of its three attempts, never saw
\* its action as status, and returned the failure.
C1_Witness ==
    \E c \in Callers :
        /\ Returned(c)
        /\ call[c].action = "buka"
        /\ ~call[c].inWindow
        /\ ~ResultOf(c).ok
        /\ call[c].publishes = max_retries

\* C2: when a poll of attempt 1 reads a status equal to the action, the call
\* has returned success in attempt 1, with exactly one publish made and no
\* second attempt started.
C2_SuccessOnFirstAttempt ==
    \A c \in Callers :
        call[c].matched = 1
            => /\ call[c].pc = "done"
               /\ call[c].result = Some(Outcome(TRUE, "confirmed", call[c].action, 1))
               /\ call[c].attempt = 1
               /\ call[c].publishes = 1

\* C2 witness: a call confirmed in attempt 1 on a connected link.
C2_Witness ==
    \E c \in Callers :
        /\ Returned(c)
        /\ call[c].matched = 1
        /\ ResultOf(c).ok
        /\ is_connected
        /\ transport = "open"

\* C3: a call returns success only in an attempt 1..max_retries whose publish
\* reported success and in whose window, after that publish, a poll read a
\* status equal to the action.
C3_SuccessNeedsPublishAndMatch ==
    \A c \in Callers :
        (call[c].result # None /\ ResultOf(c).ok)
            => /\ call[c].attempt \in 1..max_retries
               /\ call[c].rc = "success"
               /\ call[c].matched = call[c].attempt
               /\ call[c].inWindow
               /\ ResultOf(c).action = call[c].action
               /\ call[c].action \in ValidActions

\* C3 witness: a success in the second attempt, after a first attempt whose
\* publish went out.
C3_Witness ==
    \E c \in Callers :
        /\ Returned(c)
        /\ ResultOf(c).ok
        /\ call[c].attempt = 2
        /\ call[c].publishes = 2

\* C4: a call with an action other than "buka" or "tutup" returns the
\* validation failure in its first step: no attempt is counted, no connect is
\* made, nothing is published, and is_connected, servo_status, the transport and
\* the telemetry state are as they were before the call.
C4_InvalidActionRejected ==
    [][\A c \in Callers :
          call'[c].action \notin (ValidActions \cup {"none"})
              => /\ call'[c].pc = "done"
                 /\ call'[c].result = Some(Outcome(FALSE, "invalid", call'[c].action, 0))
                 /\ call'[c].attempt = 0
                 /\ call'[c].publishes = 0
                 /\ call'[c].connects = 0
                 /\ call[c].pc = "idle"
                      => UNCHANGED <<is_connected, servo_status, transport, subs, wire,
                                     telVars>>]_vars

\* C4 witness: an invalid action rejected while the link is down, where a valid
\* one would have triggered a connect.
C4_Witness ==
    \E c \in Callers :
        /\ Returned(c)
        /\ call[c].action = "stop"
        /\ ~ResultOf(c).ok
        /\ ~is_connected
        /\ transport = "closed"

\* ------------------------------------------------------------------------
\* Claims about the telemetry state and the parser
\* (specifications SpecTelemetry and SpecParser)
\* ------------------------------------------------------------------------

NumericFields == {"temperature", "humidity", "light"}

\* the meaning of a token, as the node that sent it intends it
MeaningOf(tk) ==
    CASE tk.field \in {"temperature", "humidity"} -> tk.fval
      [] tk.field = "light" -> tk.ival
      [] tk.field = "rain" -> tk.bval
      [] tk.field = "last_update" -> tk.tval

DefaultOf(field) ==
    CASE field \in {"temperature", "humidity"} -> Float(0)
      [] field = "light" -> 0
      [] field = "rain" -> FALSE

\* the positions of the tokens of a field in a message
TokensOf(toks, field) == {i \in 1..Len(toks) : TokenOf(toks[i]).field = field}

GoodTokensOf(toks, field) == {i \in TokensOf(toks, field) : TokenOf(toks[i]).good}

Last(S) == CHOOSE i \in S : \A j \in S : j <= i

\* the value a message gives a field: that of its last well-formed token of the
\* field, the default when it has none
SentValue(toks, field) ==
    IF GoodTokensOf(toks, field) = {} THEN DefaultOf(field)
    ELSE MeaningOf(TokenOf(toks[Last(GoodTokensOf(toks, field))]))

\* the time a message gives: that of its last waktu token when it is well
\* formed, the clock otherwise
SentTime(toks, now) ==
    IF TokensOf(toks, "last_update") = {} THEN now
    ELSE LET tk == TokenOf(toks[Last(TokensOf(toks, "last_update"))])
         IN  IF tk.good THEN tk.tval ELSE now

\* the record a message stands for
SentRecord(m) ==
    [temperature |-> SentValue(m.toks, "temperature"),
     humidity |-> SentValue(m.toks, "humidity"),
     light |-> SentValue(m.toks, "light"),
     rain |-> SentValue(m.toks, "rain"),
     last_update |-> SentTime(m.toks, m.now),
     current_hour |-> SentTime(m.toks, m.now).hour]

\* a numeric token of the message failed conversion
HasBadField(toks) ==
    \E i \in 1..Len(toks) :
        TokenOf(toks[i]).field \in NumericFields /\ ~TokenOf(toks[i]).good

\* the message thread has finished the last message it was given
Settled == inbound.pc = "idle" /\ Len(sent) > 0

LastSent == sent[Len(sent)]

\* the decodable messages dispatched so far
Decodable == SelectSeq(sent, LAMBDA m : m.decodable)

\* self.latest_data as a value
LatestValue == IF latest_data = 0 THEN None ELSE Some(heap[latest_data])

\* C5 as claimed: after a message in which a numeric field failed conversion,
\* latest_data is the record it was before the message.
C5_BadFieldLeavesStateUnchanged ==
    (Settled /\ LastSent.decodable /\ HasBadField(LastSent.toks))
        => LatestValue = (IF Len(heap) <= 1 THEN None ELSE Some(heap[Len(heap) - 1]))

\* C5 amended: a message in which a numeric field failed conversion replaces
\* latest_data like any other message: the new record is built from that
\* message, and the failed field holds its default (0.0, 0) unless another
\* token of the same message supplies it. Only a message that does not decode
\* leaves latest_data as it was.
C5_BadFieldStillReplaces ==
    /\ (Settled /\ LastSent.decodable /\ HasBadField(LastSent.toks))
          => /\ latest_data = Len(heap)
             /\ latest_data = Len(Decodable)
             /\ heap[latest_data] = SentRecord(LastSent)
             /\ \A f \in NumericFields :
                   GoodTokensOf(LastSent.toks, f) = {}
                       => heap[latest_data][f] = DefaultOf(f)
    /\ (Settled /\ ~LastSent.decodable)
          => /\ latest_data = Len(heap)
             /\ Len(heap) = Len(Decodable)

\* C5 witness: a record with temperature 28.5 was replaced, by a message whose
\* suhu failed conversion, with a record of temperature 0.0.
C5_Witness ==
    /\ Settled
    /\ Len(heap) = 2
    /\ LastSent.decodable
    /\ HasBadField(LastSent.toks)
    /\ heap[1].temperature = Normalize(285, 10)
    /\ latest_data = 2
    /\ heap[2].temperature = Float(0)

\* the values one reader holds are those of one stored record
FromOneMessage(got, reads) ==
    \/ got = <<>>
    \/ \E m \in 1..Len(heap) :
          \A k \in 1..Len(got) : got[k] = ReadValue(heap[m], reads[k])

\* C6: whatever the interleaving of the message thread with get_formatted_data
\* and the web handlers, the values a reader has read are all those of one
\* single message's record.
C6_ReadersSeeOneMessage ==
    /\ FromOneMessage(fmt.got, FmtReads)
    /\ FromOneMessage(web.got, WebReads(web.op))
    /\ \A m \in 1..Len(heap) : m <= Len(Decodable) /\ heap[m] = SentRecord(Decodable[m])

\* C6 witness: both readers are in the middle of their reads while the message
\* thread holds a different record and waits for the lock.
C6_Witness ==
    /\ fmt.pc = "locked"
    /\ Len(fmt.got) \in 1..(Len(FmtReads) - 1)
    /\ web.pc = "read"
    /\ Len(web.got) >= 1
    /\ inbound.pc = "lock"
    /\ latest_data # 0
    /\ inbound.pending[1] # heap[latest_data]

\* C7: once the message thread has finished, latest_data is the record of the
\* most recent message that decoded, whatever the time it carries: None only
\* when no message has decoded yet.
C7_LastWriteWins ==
    inbound.pc = "idle"
        => IF Len(Decodable) = 0 THEN latest_data = 0
           ELSE /\ latest_data # 0
                /\ heap[latest_data] = SentRecord(Decodable[Len(Decodable)])

\* C7 witness: the stored record carries an older time than the record it
\* replaced.
C7_Witness ==
    /\ inbound.pc = "idle"
    /\ Len(heap) = 2
    /\ latest_data = 2
    /\ Earlier(heap[2].last_update, heap[1].last_update)

\* C8: a numeric token that fails conversion is dropped alone: each of
\* temperature, humidity, light and rain in the stored record is the value of the
\* last well-formed token of that field in the payload (the default when there
\* is none); tokens with unknown keys or without ':' change nothing, and the
\* payload is stored whatever bad tokens it holds.
C8_BadFieldDroppedAlone ==
    (Settled /\ LastSent.decodable)
        => /\ latest_data = Len(heap)
           /\ latest_data # 0
           /\ \A f \in NumericFields \cup {"rain"} :
                 heap[latest_data][f] = SentValue(LastSent.toks, f)

\* C8 witness: the example payload followed by a suhu that fails conversion and
\* a token without ':' is stored with the temperature of the well-formed suhu.
C8_Witness ==
    /\ Settled
    /\ LastSent.toks = CanonicalTokens \o <<"suhu_abc", "no_colon">>
    /\ latest_data # 0
    /\ heap[latest_data].temperature = Normalize(285, 10)
    /\ heap[latest_data].humidity = Float(55)
    /\ heap[latest_data].light = 1800

\* the payload gives each of the five fields and all of their tokens are well
\* formed
AllFiveWellFormed(toks) ==
    \A f \in NumericFields \cup {"rain", "last_update"} :
        TokensOf(toks, f) # {} /\ TokensOf(toks, f) = GoodTokensOf(toks, f)

\* C9: for a payload with well-formed suhu, kelembapan, cahaya_analog, hujan and
\* waktu tokens, the stored record has the temperature, humidity and light that
\* were sent, rain false exactly for the no-rain words, and as time and hour
\* those of the waktu timestamp.
C9_WellFormedRoundTrip ==
    (Settled /\ LastSent.decodable /\ AllFiveWellFormed(LastSent.toks))
        => /\ latest_data # 0
           /\ heap[latest_data] = SentRecord(LastSent)
           /\ heap[latest_data].current_hour
                 = TokenOf(LastSent.toks[Last(TokensOf(LastSent.toks, "last_update"))]).tval.hour

\* C9 witness: the round-trip example of the specification.
C9_Witness ==
    /\ Settled
    /\ LastSent.toks = CanonicalTokens
    /\ latest_data = 1
    /\ heap[1] = [temperature |-> [kind |-> "num", num |-> 285, den |-> 10],
                  humidity |-> [kind |-> "num", num |-> 55, den |-> 1],
                  light |-> 1800,
                  rain |-> FALSE,
                  last_update |-> DateTime(2025, 6, 24, 21, 28, 44),
                  current_hour |-> 21]

\* message b is message a with one more token, which sends zero or false for a
\* field that a does not mention
ZeroAdded(a, b) ==
    \E k \in 1..Len(b) :
        LET tk == TokenOf(b[k])
        IN  /\ a = SubSeq(b, 1, k - 1) \o SubSeq(b, k + 1, Len(b))
            /\ tk.field \in NumericFields \cup {"rain"}
            /\ tk.good
            /\ MeaningOf(tk) = DefaultOf(tk.field)
            /\ TokensOf(a, tk.field) = {}

\* C10 as claimed: two payloads that differ only in omitting a field versus
\* sending zero for it are stored as records a caller can tell apart.
C10_AbsentDistinctFromZero ==
    (inbound.pc = "idle" /\ Len(heap) = Len(sent))
        => \A i, j \in 1..Len(sent) :
              ZeroAdded(sent[i].toks, sent[j].toks) => heap[i] # heap[j]

\* ------------------------------------------------------------------------
\* Claims about the link (specification Spec)
\* ------------------------------------------------------------------------

\* C11 as claimed: is_connected is true only once the broker has acknowledged
\* the connection with rc = 0; while a CONNECT awaits its acknowledgement, and
\* after a refused one, the link is not reported as connected.
C11_ConnectedOnlyAfterAck ==
    is_connected => transport = "open"
\* C12: whenever the connection stands acknowledged, after a first connect as
\* after a reconnect, the client is subscribed to exactly jemuran/data,
\* jemuran/status and jemuran/control; with no successful acknowledgement (a
\* CONNECT still unanswered, a refused one, a closed link) it is subscribed to
\* nothing.
C12_ExactlyThreeSubscriptions ==
    /\ transport = "open"
          => subs = {"jemuran/data", "jemuran/status", "jemuran/control"}
    /\ transport # "open" => subs = {}
    /\ seen.acks = 0 => subs = {}

\* C12 witness: the second successful acknowledgement, the one after a
\* reconnect, has subscribed to the three topics.
C12_Witness ==
    /\ seen.acks = 2
    /\ transport = "open"
    /\ is_connected
    /\ subs = {"jemuran/data", "jemuran/status", "jemuran/control"}

\* C13 as claimed: a message on jemuran/control is only logged, so a call
\* returns success only on a status value that a message on jemuran/status
\* has set.
C13_EchoOnlyLogged ==
    [][\A c \in Callers :
          (call[c].result = None /\ call'[c].result # None /\ call'[c].result[1].ok)
              => seen.from = "jemuran/status"]_vars
\* a call is waiting for its confirmation: it has published and polls the
\* shared status value
Waiting(c) == call[c].pc = "poll"

\* C20 as claimed: the publish-and-poll attempts of concurrent calls are
\* serialized, so at most one call at a time is waiting for its confirmation.
C20_WaitsSerialized ==
    Cardinality({c \in Callers : Waiting(c)}) <= 1

\* ------------------------------------------------------------------------
\* Claims about FuzzySystem.evaluate (specification SpecFuzzy)
\* ------------------------------------------------------------------------

\* a call of evaluate has ended: its arguments and its outcome
Evaluated == fz.pc = "done"

Args == fz.args[1]

Result == fz.result[1]

\* temperature in [0,50] and humidity in [0,100], both held in tenths
TemperatureInRange == 0 <= Args.temperature /\ Args.temperature <= 500

HumidityInRange == 0 <= Args.humidity /\ Args.humidity <= 1000

\* all five arguments are numbers, temperature and humidity in their ranges
Accepted == TemperatureInRange /\ HumidityInRange /\ Args.light # None

\* the firing strengths of the rules for the arguments of the call
Fired == RuleStrengths(Fuzzify(Corrected(Args)))

\* C14: for temperature in [0,50] and humidity in [0,100], a call with rain
\* true (1, or any other value that is not 0) returns the category "buruk",
\* whatever the light and the hour.
C14_RainIsPoor ==
    (Evaluated /\ Accepted /\ Args.rain # 0)
        => /\ Result.status = "success"
           /\ Result.recommendation = "buruk"
           /\ Result.input_parameters.rain = 1

\* C14 witness: rain with otherwise ideal conditions (25 degrees, 60 %, bright,
\* 13 h) is rated "buruk".
C14_Witness ==
    /\ Evaluated
    /\ Args = [temperature |-> 250, humidity |-> 600, light |-> Some(0), rain |-> 1,
               time |-> 13]
    /\ Result.recommendation = "buruk"

\* C15: for temperature in [0,50] and humidity in [0,100] the call returns a
\* confidence num/den within [0,100] and the category that goes with it:
\* "bagus" iff confidence >= 70, "cukup" iff 30 <= confidence < 70, "buruk" iff
\* confidence < 30.
C15_ConfidenceAndCategoryAgree ==
    (Evaluated /\ Accepted)
        => LET c == Result.confidence
           IN  /\ Result.status = "success"
               /\ c.den > 0
               /\ 0 <= c.num /\ c.num <= 100 * c.den
               /\ Result.recommendation = "bagus" <=> c.num >= 70 * c.den
               /\ Result.recommendation = "cukup"
                     <=> (30 * c.den <= c.num /\ c.num < 70 * c.den)
               /\ Result.recommendation = "buruk" <=> c.num < 30 * c.den

\* C15 witness: a confidence between 30 and 40 (a dry night) is rated "cukup".
C15_Witness ==
    /\ Evaluated
    /\ Accepted
    /\ 30 * Result.confidence.den <= Result.confidence.num
    /\ Result.confidence.num < 40 * Result.confidence.den
    /\ Result.recommendation = "cukup"

\* the light and the hour an out-of-range argument stands for
LightAs(light) == IF light > 4096 THEN 4096 ELSE IF light < 0 THEN 0 ELSE light

HourAs(hour) == CHOOSE h \in 0..23 : \E q \in -2..2 : hour = 24 * q + h

\* C16: a call with light above 4096 or below 0, or with an hour outside
\* 0..23, ends exactly as the call with light 4096 or 0 and the hour modulo 24
\* does, and is not rejected for it.
C16_LightAndHourCorrected ==
    (Evaluated /\ Args.light # None)
        => /\ Result = evaluate([Args EXCEPT !.light = Some(LightAs(Args.light[1])),
                                              !.time = HourAs(Args.time)])
           /\ Accepted
                 => /\ Result.status = "success"
                    /\ Result.input_parameters.light = LightAs(Args.light[1])
                    /\ Result.input_parameters.time = HourAs(Args.time)

\* C16 witness: light 5000 at hour 25 is evaluated as light 4096 at hour 1.
C16_Witness ==
    /\ Evaluated
    /\ Accepted
    /\ Args.light = Some(5000)
    /\ Args.time = 25
    /\ Result.status = "success"
    /\ Result.input_parameters.light = 4096
    /\ Result.input_parameters.time = 1

\* C17: a call with temperature outside [0,50] or humidity outside [0,100]
\* ends with status 400 and no recommendation, and only such a call does; any
\* other fault ends with status 500; the bounds 0, 50 and 100 are accepted.
C17_ValidationFailureIs400 ==
    Evaluated
        => /\ (~TemperatureInRange \/ ~HumidityInRange)
                 => Result.status_code = 400 /\ Result.recommendation = "none"
           /\ Result.status_code = 400 => (~TemperatureInRange \/ ~HumidityInRange)
           /\ (TemperatureInRange /\ HumidityInRange /\ Args.light = None)
                 => Result.status_code = 500 /\ Result.recommendation = "none"
           /\ Accepted => Result.status = "success"

\* C17 witness: temperature 50.1 is rejected with 400 even when the light
\* argument is faulty as well.
C17_Witness ==
    /\ Evaluated
    /\ Args.temperature = 501
    /\ Args.light = None
    /\ Result.status_code = 400

\* C18: for every accepted input rule 1 (rain = 1) or rule 7 (rain = 0) fires
\* with full strength, the default is not taken and the confidence is the
\* centroid of the aggregated output; the default 50 would be returned only
\* with no rule firing.
C18_DefaultNeverTaken ==
    (Evaluated /\ Accepted)
        => /\ Result.status = "success"
           /\ Fired.rule1 = Unit \/ Fired.rule7 = Unit
           /\ ~Result.defaulted
           /\ Some(Result.confidence) = Compute(Corrected(Args)).output
           /\ Result.defaulted => \A r \in RuleNames : Fired[r] = 0

\* C18 witness: with rule 7 alone firing the confidence is a computed 50, not
\* the default.
C18_Witness ==
    /\ Evaluated
    /\ Accepted
    /\ Args.rain = 0
    /\ \A r \in RuleNames \ {"rule7"} : Fired[r] = 0
    /\ Fired.rule7 = Unit
    /\ Result.confidence.num = 50 * Result.confidence.den
    /\ ~Result.defaulted

\* C19 as claimed: the rule list of a recommendation holds exactly the rules
\* whose firing strength for the evaluated input is not zero.
C19_RulesActivatedAreTheFiredRules ==
    (Evaluated /\ Result.status = "success")
        => {Result.rules_activated[i] : i \in 1..Len(Result.rules_activated)}
              = {r \in RuleNames : Fired[r] > 0}

\* C26: for every accepted input with rain = 0 the default rule 7 fires with
\* full strength, the confidence lies in [30,70) and the category is "cukup";
\* "bagus" is returned for no input at all, and "buruk" only with rain.
C26_NoRainIsAlwaysFair ==
    Evaluated
        => /\ (Accepted /\ Args.rain = 0)
                 => /\ Fired.rule7 = Unit
                    /\ 30 * Result.confidence.den <= Result.confidence.num
                    /\ Result.confidence.num < 70 * Result.confidence.den
                    /\ Result.recommendation = "cukup"
           /\ Result.recommendation # "bagus"
           /\ Result.recommendation = "buruk" => Args.rain # 0

\* C26 witness: rule 3 fires with full strength (25 degrees, 60 %, bright light,
\* 13 h, no rain) and the category is "cukup" all the same.
C26_Witness ==
    /\ Evaluated
    /\ Accepted
    /\ Args.rain = 0
    /\ Fired.rule3 = Unit
    /\ Result.recommendation = "cukup"

\* a request for a recommendation has been served from the record Latest
Served == fz.pc = "served"

Latest == fz.args[1]

\* C24 as claimed: with a latest record whose temperature is outside [0,50] or
\* whose humidity is outside [0,100], get_recommendation ends as a rejected
\* request (status 400) and not as the internal failure (status 500).
C24_OutOfRangeRecordIsRejected ==
    (/\ Served
     /\ fz.args # None
     /\ \/ Latest.temperature < 0 \/ Latest.temperature > 500
        \/ Latest.humidity < 0 \/ Latest.humidity > 1000)
        => Result.status_code = 400 /\ Result.status_code # 500

\* C25: publish_control never changes the observed status value (no step of a
\* call does), and a call in its first attempt whose publish succeeded and
\* which meets the polled value already equal to its action, no message
\* having arrived since the publish, returns success with attempt 1.
C25_StaleStatusConfirms ==
    [][/\ servo_status' # servo_status
            => \A c \in Callers : call'[c].pc = call[c].pc
       /\ \A c \in Callers :
            (/\ call[c].pc = "poll"
             /\ call[c].attempt = 1
             /\ ~call[c].fresh
             /\ servo_status = Some(call[c].action)
             /\ call'[c] # call[c]
             /\ ~call'[c].fresh)
                => /\ call'[c].pc = "done"
                   /\ call'[c].result = Some(Outcome(TRUE, "confirmed", call[c].action, 1))]_vars

\* C25 witness: a call has returned success on attempt 1 after one publish and
\* no message since that publish.
C25_Witness ==
    \E c \in Callers :
        /\ call[c].pc = "done"
        /\ call[c].result # None
        /\ call[c].result[1].ok
        /\ call[c].result[1].attempts = 1
        /\ call[c].publishes = 1
        /\ ~call[c].fresh

\* a publish_control call is between its validation and its return statement
Running(c) == call[c].pc \notin {"idle", "done"}

\* C22: a publish_control call with a valid action eventually returns an
\* outcome, a (success, message) pair and never an exception, after at most
\* max_retries attempts; an attempt that fails (connect fails or raises,
\* publish fails or raises, window elapses) is followed by the next attempt or
\* by the failure return, and an attempt that finds the link not connected
\* after its connect publishes nothing.
C22_AlwaysReturnsAnOutcome ==
    /\ Running("c1") ~> call["c1"].pc = "done"
    /\ [](\A c \in Callers :
            /\ call[c].attempt <= max_retries
            /\ call[c].pc = "done"
                 => /\ call[c].result # None
                    /\ call[c].result[1].ok \in BOOLEAN
                    /\ call[c].result[1].kind \in {"invalid", "confirmed", "exhausted"}
                    /\ call[c].result[1].attempts <= max_retries)
    /\ [][\A c \in Callers :
            /\ (call[c].pc = "connected" /\ ~is_connected /\ call'[c] # call[c])
                 => /\ call'[c].pc \in {"attempt", "done"}
                    /\ call'[c].publishes = call[c].publishes
                    /\ call'[c].pc = "attempt" => call'[c].attempt = call[c].attempt + 1
            /\ (Running(c) /\ call'[c].attempt # call[c].attempt)
                 => /\ call'[c].attempt = call[c].attempt + 1
                    /\ call'[c].pc = "attempt"]_vars

\* C22 witness: a call has returned failure after a connect that raised, a
\* publish and a window without a match.
C22_Witness ==
    /\ call["c1"].pc = "done"
    /\ call["c1"].result # None
    /\ ~call["c1"].result[1].ok
    /\ call["c1"].result[1].kind = "exhausted"
    /\ call["c1"].connects >= 1
    /\ call["c1"].publishes >= 1
    /\ call["c1"].publishes < max_retries

\* C21: the telemetry lock is held only by the inbound thread while it replaces
\* the record and by a reader while it reads it; no step of a publish_control
\* call takes or keeps it, so that during a call, confirmation poll included,
\* the lock is free whenever no replace and no read is under way.
C21_LockNeverHeldByCommand ==
    /\ [](/\ lock \in {"free", "inbound", "fmt"}
          /\ lock = "inbound" => inbound.pc \in {"store", "unlock"}
          /\ lock = "fmt" => fmt.pc = "locked"
          /\ (Running("c1") /\ inbound.pc \notin {"store", "unlock"} /\ fmt.pc # "locked")
                => lock = "free")
    /\ [][call' # call => lock' = lock]_vars

\* C21 witness: the inbound thread holds the lock and replaces the record
\* while a publish_control call is in its confirmation poll.
C21_Witness ==
    /\ call["c1"].pc = "poll"
    /\ lock = "inbound"
    /\ inbound.pc = "unlock"
    /\ latest_data # 0

\* the on_disconnect callback returns from its connect()
CallbackReturns == inbound.pc = "reconnect" /\ inbound'.pc = "idle"

\* what C23 says of every drop, clean or not: an unexpected drop marks the
\* link not connected, the callback makes no second attempt and none after it
\* has returned, a failed attempt leaves the link not connected, and a clean
\* disconnect makes no attempt at all
DropHandling ==
    /\ [](seen.inline <= 1)
    /\ [](seen.drop = "clean" => inbound.pc # "reconnect" /\ seen.inline = 0)
    /\ [][/\ (inbound.pc = "idle" /\ inbound'.pc = "reconnect")
               => ~is_connected' /\ transport' = "closed" /\ seen'.drop = "unexpected"
          /\ (CallbackReturns /\ transport' = "closed") => ~is_connected'
          /\ seen'.inline # seen.inline
               => \/ inbound.pc = "reconnect"
                  \/ seen'.inline = 0 /\ transport # "closed" /\ transport' = "closed"
          /\ (transport # "closed" /\ transport' = "closed" /\ seen'.drop = "clean")
               => inbound'.pc = inbound.pc /\ ~is_connected']_vars

====
